---- MODULE Spec2Model ----
(***************************************************************************)
(* Model of the Landsat downloader (src/downloader): the S3 connector, the *)
(* STAC connector, the per-scene DownloadedFile.process pipeline and the   *)
(* LandsatDownloader.run orchestrator.                                     *)
(*                                                                         *)
(* Python values that the code compares across types (Content-Length is a  *)
(* header string, ContentLength of head_object is an int) are tagged       *)
(* records, so that str() and int() are conversions and not the identity.  *)
(***************************************************************************)
EXTENDS Integers, Sequences, FiniteSets, TLC

(***************************************************************************)
(* Bounds of the model.                                                    *)
(***************************************************************************)
\* largest object size (bytes) the S3 driver uploads or asks for
MaxSize == 2
\* number of bucket keys the S3 driver works on
MaxKeys == 2

(***************************************************************************)
(* Python values.                                                          *)
(***************************************************************************)
PyNone == [t |-> "None", v |-> 0]
PyInt(n) == [t |-> "int", v |-> n]
\* the decimal string of n
PyStr(n) == [t |-> "str", v |-> n]
\* str(x) of an int or a str
str(x) == IF x.t = "int" THEN PyStr(x.v) ELSE x
\* int(x) of a decimal string or an int
int(x) == PyInt(x.v)
PyTrue == [t |-> "bool", v |-> 1]
PyFalse == [t |-> "bool", v |-> 0]
\* Python ==: a str never equals an int
PyEq(x, y) == x.t = y.t /\ x.v = y.v

(***************************************************************************)
(* Exceptions, as data.                                                    *)
(***************************************************************************)
NoExc == [type |-> "None", info |-> ""]
Exc(type, info) == [type |-> type, info |-> info]
ClientError(code) == Exc("ClientError", code)
\* the exception of a failed bucket request: "conn" is a failure of the
\* connection (a BotoCoreError, no ClientError), any other code a ClientError
S3Error(err) == IF err = "conn" THEN Exc("EndpointConnectionError", "") ELSE ClientError(err)

(***************************************************************************)
(* The bucket: a function from the keys that exist to their objects.       *)
(* A key is dataset/filename; a filename is a stem and a suffix.           *)
(***************************************************************************)
Key(dir, stem, suffix) == [dir |-> dir, stem |-> stem, suffix |-> suffix]
Object(size, kind, id, val) == [size |-> size, kind |-> kind, id |-> id, val |-> val]
EmptyBucket == [k \in {} |-> [size |-> 0, kind |-> "", id |-> 0, val |-> 0]]

\* s3_client.upload_file / put
BucketPut(st, key, obj) ==
    [k \in DOMAIN st \cup {key} |-> IF k = key THEN obj ELSE st[k]]
\* s3_client.delete_object
BucketDelete(st, key) == [k \in DOMAIN st \ {key} |-> st[k]]

NoObject == Object(0, "", 0, 0)
\* result of a connector call: the bucket after it, the returned value, the
\* raised exception (NoExc when it returned)
S3Result(st, ret, exc) == [store |-> st, ret |-> ret, exc |-> exc, obj |-> NoObject]

(***************************************************************************)
(* S3Connector.  The parameter err of each call is the error code with     *)
(* which the transport fails the request ("" when it does not).            *)
(***************************************************************************)
\* a mutant of upload_file: nothing is sent to the bucket
upload_file_unsent(st, bucket_key, obj, err) == S3Result(st, PyNone, NoExc)

upload_file(st, bucket_key, obj, err) ==
    IF err # ""
    THEN S3Result(st, PyNone, S3Error(err))
    ELSE S3Result(BucketPut(st, bucket_key, obj), PyNone, NoExc)

\* download_file: the local file is opened (created empty) before the
\* transfer, and ClientError is re-raised
download_file(st, bucket_key, err) ==
    IF err # ""
    THEN S3Result(st, PyNone, S3Error(err))
    ELSE IF bucket_key \notin DOMAIN st
    THEN S3Result(st, PyNone, ClientError("404"))
    ELSE [store |-> st, ret |-> PyNone, exc |-> NoExc, obj |-> st[bucket_key]]

delete_key(st, bucket_key, err) ==
    IF err # ""
    THEN S3Result(st, PyNone, S3Error(err))
    ELSE S3Result(BucketDelete(st, bucket_key), PyNone, NoExc)

\* a mutant of check_if_key_exists: a size mismatch is reported but the
\* stale key is left in the bucket
check_if_key_exists_keep(st, bucket_key, expected_length, headErr, delErr) ==
    IF headErr # ""
    THEN S3Result(st, PyNone, S3Error(headErr))
    ELSE IF bucket_key \notin DOMAIN st
    THEN S3Result(st, PyFalse, NoExc)
    ELSE IF expected_length # PyNone
    THEN IF PyEq(str(PyInt(st[bucket_key].size)), expected_length)
         THEN S3Result(st, PyTrue, NoExc)
         ELSE S3Result(st, PyFalse, NoExc)
    ELSE S3Result(st, PyTrue, NoExc)

check_if_key_exists(st, bucket_key, expected_length, headErr, delErr) ==
    IF headErr # ""
    THEN \* head_object failed with another error than 404: raise e
         S3Result(st, PyNone, S3Error(headErr))
    ELSE IF bucket_key \notin DOMAIN st
    THEN \* head_object answers 404
         S3Result(st, PyFalse, NoExc)
    ELSE IF expected_length # PyNone
    THEN IF PyEq(str(PyInt(st[bucket_key].size)), expected_length)
         THEN S3Result(st, PyTrue, NoExc)
         ELSE LET d == delete_key(st, bucket_key, delErr)
              IN  IF d.exc # NoExc THEN d ELSE S3Result(d.store, PyFalse, NoExc)
    ELSE S3Result(st, PyTrue, NoExc)

(***************************************************************************)
(* HTTP clients.  Time is counted in hours.  A request of a client is      *)
(* logged with the token it carries and the expiry the client had stored   *)
(* when it was sent; target is the feature id in the URL of a PUT (0 in    *)
(* any other request); attempt counts the attempts of one _retry_request.  *)
(***************************************************************************)
\* STACConnector._login: utcnow() + timedelta(days=1)
StacTokenHours == 24
\* M2MAPIConnector._login_token: utcnow() + timedelta(hours=2)
M2MTokenHours == 2
\* default of max_retries in both _send_request methods
max_retries_default == 5

\* default of timeout in both _retry_request methods, in seconds
timeout_default == 10
\* the timeout argument of the requests call that sends a request: PyNone
\* where the call passes none.  The M2M POSTs and the catalog requests of
\* _retry_request other than 'auth' pass timeout=timeout; the auth GET,
\* the POST of register_stac_item and the GET of _download_self do not.
request_timeout(client, endpoint) ==
    IF client = "m2m"
    THEN PyInt(timeout_default)
    ELSE IF client = "stac" /\ endpoint \notin {"auth", "items_post"}
    THEN PyInt(timeout_default)
    ELSE PyNone

Req(client, endpoint, target, bearer, token, at, valid_until) ==
    [client |-> client, endpoint |-> endpoint, target |-> target, bearer |-> bearer,
     token |-> token, at |-> at, valid_until |-> valid_until, attempt |-> 1,
     timeout |-> request_timeout(client, endpoint)]
\* the requests of the attempts 1..sent of one _retry_request
Attempts(req, sent) == {[req EXCEPT !.attempt = k] : k \in 1..sent}
\* an endpoint of the catalog: 'auth', or /collections/<dataset>/items/<fid>
Endpoint(path, fid) == [path |-> path, fid |-> fid]

\* what the network and the peer do to the requests of one connector call:
\*   timeouts     attempts of a _retry_request that time out in a row
\*   status       HTTP status of the response to that request
\*   authTimeouts attempts of a login request that time out in a row
\*   authStatus   HTTP status of the response to a login request
\*   authToken    whether the login response carries a token
\*   post         the answer to the registration POST: "ok" (the catalog
\*                handles it), "conn" (connection error), "err_top" /
\*                "err_arr" (an embedded error that is not 409, in the
\*                ErrorCode form / in the errors[] form)
\*   form         the form of an embedded 409: "top" or "arr"
\*   error        whether the attempt after the timeouts raises another
\*                exception than Timeout (a ConnectionError) instead of
\*                being answered
Net(timeouts, status, authTimeouts, authStatus, authToken, post, form) ==
    [timeouts |-> timeouts, status |-> status, authTimeouts |-> authTimeouts,
     authStatus |-> authStatus, authToken |-> authToken, post |-> post, form |-> form,
     error |-> FALSE]
Benign == Net(0, 200, 0, 200, TRUE, "ok", "top")

\* a mutant of _retry_request: the request is sent once more than
\* max_retries times
RECURSIVE retry_request_once_more(_, _, _, _)
retry_request_once_more(max_retries, retry, timeouts, error) ==
    IF max_retries >= retry
    THEN IF timeouts > retry
         THEN retry_request_once_more(max_retries, retry + 1, timeouts, error)
         ELSE [sent |-> retry + 1, answered |-> ~error, raised |-> error]
    ELSE [sent |-> retry, answered |-> FALSE, raised |-> FALSE]

\* the loop of _retry_request (the same in both clients): retry counts the
\* attempts that timed out; returns how many requests were sent, whether
\* one was answered and whether one raised another exception than Timeout
RECURSIVE retry_request(_, _, _, _)
retry_request(max_retries, retry, timeouts, error) ==
    IF max_retries > retry
    THEN IF timeouts > retry
         THEN \* except requests.exceptions.Timeout: retry += 1
              retry_request(max_retries, retry + 1, timeouts, error)
         ELSE IF error
         THEN \* no except clause for it
              [sent |-> retry + 1, answered |-> FALSE, raised |-> TRUE]
         ELSE \* return response
              [sent |-> retry + 1, answered |-> TRUE, raised |-> FALSE]
    ELSE [sent |-> retry, answered |-> FALSE, raised |-> FALSE]

\* an exception of requests that is no Timeout
ConnectionError == Exc("ConnectionError", "")

\* result of a call of a client: the client's fields after it, the
\* exception raised (NoExc if none), the requests sent
CallResult(cl, exc, reqs) == [cl |-> cl, exc |-> exc, reqs |-> reqs]

(***************************************************************************)
(* STACConnector: fields token (_stac_token) and valid_until               *)
(* (_api_token_valid_until).                                               *)
(***************************************************************************)
StacClient(token, valid_until) == [token |-> token, valid_until |-> valid_until]

RECURSIVE STAC_send_request(_, _, _, _)
RECURSIVE STAC_login(_, _, _)

\* the expiry test of _send_request
STAC_expired(cl, now) == cl.valid_until < now

\* _send_request from the Authorization header on; lg is the result of the
\* login the expiry test led to (or of none)
STAC_send_logged_in(lg, now, endpoint, net) ==
    IF lg.exc # NoExc
    THEN lg
    ELSE IF endpoint.path # "auth" /\ lg.cl.token = PyNone
    THEN \* 'Bearer ' + None
         CallResult(lg.cl, Exc("TypeError", "Bearer"), lg.reqs)
    ELSE LET r == IF endpoint.path = "auth"
                  THEN \* requests.get(endpoint, auth=...): no timeout
                       [sent |-> 1, answered |-> TRUE, raised |-> FALSE]
                  ELSE retry_request(max_retries_default, 0, net.timeouts, net.error)
             status == IF endpoint.path = "auth" THEN net.authStatus ELSE net.status
             sent == Attempts(Req("stac", endpoint.path, endpoint.fid,
                                  endpoint.path # "auth", lg.cl.token,
                                  now, lg.cl.valid_until), r.sent)
         IN  IF r.raised
             THEN CallResult(lg.cl, ConnectionError, lg.reqs \cup sent)
             ELSE IF ~r.answered
             THEN CallResult(lg.cl, Exc("STACRequestTimeout", ""), lg.reqs \cup sent)
             ELSE IF status # 200
             THEN CallResult(lg.cl, Exc("STACRequestNotOK", ""), lg.reqs \cup sent)
             ELSE CallResult(lg.cl, NoExc, lg.reqs \cup sent)

STAC_send_request(cl, now, endpoint, net) ==
    STAC_send_logged_in(IF endpoint.path # "auth" /\ STAC_expired(cl, now)
                        THEN STAC_login(cl, now, net)
                        ELSE CallResult(cl, NoExc, {}),
                        now, endpoint, net)

\* _login after its request: r is the result of the request, cl1 the client
\* as _login had set it before
STAC_login_answered(cl1, r, net) ==
    IF r.exc # NoExc
    THEN CallResult(cl1, r.exc, r.reqs)
    ELSE IF ~net.authToken
    THEN CallResult(cl1, Exc("STACTokenNotObtainedError", ""), r.reqs)
    ELSE CallResult(StacClient(PyInt(cl1.valid_until), cl1.valid_until), NoExc, r.reqs)

STAC_login(cl, now, net) ==
    STAC_login_answered(StacClient(PyNone, now + StacTokenHours),
                        STAC_send_request(StacClient(PyNone, now + StacTokenHours), now,
                                          Endpoint("auth", 0), net),
                        net)

(***************************************************************************)
(* The catalog server as the client expects it (it answers whatever the    *)
(* age of the token a request carries): items are records                  *)
(* (collection, item, fid, serial), serial counting the records the        *)
(* catalog holds for the same item; the feature id is derived from         *)
(* collection and item; a message is a sequence of words, and a word is    *)
(* text or a feature id.                                                   *)
(***************************************************************************)
W(text) == [s |-> text, n |-> 0]
IdW(fid) == [s |-> "#", n |-> fid]
ConflictMessage(fid) == <<W("Feature"), IdW(fid), W("already"), W("exists")>>
UpdateMessage(fid) == <<W("Update"), W("feature"), IdW(fid)>>
Item(collection, item, fid, serial) ==
    [collection |-> collection, item |-> item, fid |-> fid, serial |-> serial]
EmptyCatalog == {}
\* the feature id the catalog gives an item of a collection
FeatureId(collection, item) ==
    2 * item + (IF collection = "landsat_ot_c2_l1" THEN 1 ELSE 2)
\* the catalog after the POST of an item it does not hold
Created(cat, collection, item) ==
    cat \cup {Item(collection, item, FeatureId(collection, item),
                   1 + Cardinality({it \in cat : it.collection = collection
                                                 /\ it.item = item}))}

\* result of a catalog call: client, catalog, returned feature id, exception,
\* requests, and whether the update path was taken
StacResult(cl, cat, ret, exc, reqs, updated) ==
    [cl |-> cl, cat |-> cat, ret |-> ret, exc |-> exc, reqs |-> reqs, updated |-> updated]

\* update_stac_item after its request, whose result is r
update_stac_item_answered(r, cat, dataset, feature_id) ==
    IF r.exc # NoExc
    THEN StacResult(r.cl, cat, PyNone, r.exc, r.reqs, TRUE)
    ELSE IF ~\E it \in cat : it.collection = dataset /\ it.fid = feature_id
    THEN \* response['status'] != "success"
         StacResult(r.cl, cat, PyNone, Exc("STACRequestNotOK", "update"), r.reqs, TRUE)
    ELSE LET message == UpdateMessage(feature_id)
         IN  \* response['message'].split(' ')[-1]
             StacResult(r.cl, cat, PyInt(message[Len(message)].n), NoExc, r.reqs, TRUE)

update_stac_item(cl, cat, now, dataset, feature_id, net) ==
    IF cl.token = PyNone
    THEN StacResult(cl, cat, PyNone, Exc("TypeError", "Bearer"), {}, TRUE)
    ELSE update_stac_item_answered(
             STAC_send_request(cl, now, Endpoint("items_put", feature_id), net),
             cat, dataset, feature_id)

\* a mutant of register_stac_item's parsing of the conflict message:
\* split(' ')[0] instead of split(' ')[1]
ConflictId_first(message) == message[1].n
ConflictId(message) == message[2].n

\* the 409 branches of register_stac_item: what update_stac_item gave (u)
\* is what it returns or raises
register_conflict(u, post) ==
    StacResult(u.cl, u.cat, u.ret, u.exc, post \cup u.reqs, TRUE)

\* a mutant of the error branches of register_stac_item: an embedded error
\* other than 409 is answered with an update, as a 409 is
register_error_as_conflict(cl, cat, now, collection, post, net) ==
    register_conflict(update_stac_item(cl, cat, now, collection, 1, net), post)

\* the else branches of register_stac_item for an embedded error whose
\* code is not 409: raise Exception(f"Error {feature_id['ErrorCode']} ...")
register_error(cl, cat, now, collection, post, net) ==
    IF net.post = "err_top"
    THEN StacResult(cl, cat, PyNone, Exc("Exception", "ErrorCode"), post, FALSE)
    ELSE \* the message of the raise reads feature_id['ErrorCode'], a key
         \* the errors[] form does not have
         StacResult(cl, cat, PyNone, Exc("KeyError", "ErrorCode"), post, FALSE)

\* register_stac_item.  The POST is a requests.post of its own, outside
\* _retry_request and without a timeout: it is sent once, an answer that
\* is late is waited for, and the status of the response is not read (the
\* body is parsed whatever it is).  net.timeouts, net.status and net.error
\* act on the PUT of update_stac_item only.
register_stac_item(cl, cat, now, json_dict, collection, net) ==
    IF cl.token = PyNone
    THEN StacResult(cl, cat, PyNone, Exc("TypeError", "Bearer"), {}, FALSE)
    ELSE IF net.post = "conn"
    THEN StacResult(cl, cat, PyNone, Exc("ConnectionError", ""), {}, FALSE)
    ELSE LET post == {Req("stac", "items_post", 0, TRUE, cl.token, now, cl.valid_until)}
             existing == {it \in cat : it.collection = collection /\ it.item = json_dict}
         IN  IF net.post \in {"err_top", "err_arr"}
             THEN register_error(cl, cat, now, collection, post, net)
             ELSE IF existing # {}
             THEN register_conflict(
                      update_stac_item(
                          cl, cat, now, collection,
                          ConflictId(ConflictMessage((CHOOSE it \in existing : TRUE).fid)),
                          net),
                      post)
             ELSE \* feature_id['features'][0]['featureId']
                  StacResult(cl, Created(cat, collection, json_dict),
                             PyInt(FeatureId(collection, json_dict)), NoExc, post, FALSE)

(***************************************************************************)
(* M2MAPIConnector: fields token (_api_token) and valid_until.             *)
(***************************************************************************)
M2MClient(token, valid_until) == [token |-> token, valid_until |-> valid_until]

RECURSIVE M2M_send_request(_, _, _, _)
RECURSIVE M2M_login_token(_, _, _)

\* the expiry test of _send_request
M2M_expired(cl, now) == cl.valid_until < now

M2M_is_login(endpoint) == endpoint \in {"login", "login-token"}

\* _send_request from the X-Auth-Token header on; lg is the result of the
\* login the expiry test led to (or of none)
M2M_send_logged_in(lg, now, endpoint, net) ==
    IF lg.exc # NoExc
    THEN lg
    ELSE LET r == retry_request(max_retries_default, 0,
                                IF M2M_is_login(endpoint)
                                THEN net.authTimeouts ELSE net.timeouts,
                                (~M2M_is_login(endpoint)) /\ net.error)
             status == IF M2M_is_login(endpoint) THEN net.authStatus ELSE net.status
             sent == Attempts(Req("m2m", endpoint, 0, ~M2M_is_login(endpoint),
                                  lg.cl.token, now, lg.cl.valid_until), r.sent)
         IN  IF r.raised
             THEN CallResult(lg.cl, ConnectionError, lg.reqs \cup sent)
             ELSE IF ~r.answered
             THEN CallResult(lg.cl, Exc("M2MAPIRequestTimeout", ""), lg.reqs \cup sent)
             ELSE IF status # 200
             THEN CallResult(lg.cl, Exc("M2MAPIRequestNotOK", ""), lg.reqs \cup sent)
             ELSE CallResult(lg.cl, NoExc, lg.reqs \cup sent)

M2M_send_request(cl, now, endpoint, net) ==
    M2M_send_logged_in(IF ~M2M_is_login(endpoint) /\ M2M_expired(cl, now)
                       THEN M2M_login_token(cl, now, net)
                       ELSE CallResult(cl, NoExc, {}),
                       now, endpoint, net)

\* _login_token after its request: r is the result of the request, cl1 the
\* client as _login_token had set it before
M2M_login_answered(cl1, r, net) ==
    IF r.exc # NoExc
    THEN CallResult(cl1, r.exc, r.reqs)
    ELSE IF ~net.authToken
    THEN CallResult(cl1, Exc("M2MAPITokenNotObtainedError", ""), r.reqs)
    ELSE CallResult(M2MClient(PyInt(cl1.valid_until), cl1.valid_until), NoExc, r.reqs)

M2M_login_token(cl, now, net) ==
    M2M_login_answered(M2MClient(PyNone, now + M2MTokenHours),
                       M2M_send_request(M2MClient(PyNone, now + M2MTokenHours), now,
                                        "login-token", net),
                       net)

(***************************************************************************)
(* DownloadedFile.                                                         *)
(*                                                                         *)
(* What the download URL of a scene serves is the record src:              *)
(*   filename   suffix of the Content-Disposition filename after the       *)
(*              display id (".tar" gives <display id>.tar), "" if the      *)
(*              header names no file                                       *)
(*   length     the declared Content-Length                                *)
(*   has_mtl, has_stac   members <id>_MTL.xml and <id>_stac.json           *)
(*   parser_ok  whether stactools can build the item from the MTL file     *)
(*   bands      the band files of the archive                              *)
(*   platform   properties.platform of the item                            *)
(***************************************************************************)
Source(filename, length, has_mtl, has_stac, parser_ok, bands, platform) ==
    [filename |-> filename, length |-> length, has_mtl |-> has_mtl,
     has_stac |-> has_stac, parser_ok |-> parser_ok, bands |-> bands,
     platform |-> platform]

\* landsat_config.catalogue_only and landsat_config.force_redownload_file
catalogue_only_default == FALSE
force_redownload_file_default == FALSE

\* DownloadedFile.__init__.  workdir: whether the TemporaryDirectory of the
\* object exists; conflict: the feature id register_stac_item read from a
\* 409 answer (a local of the call)
DownloadedFile(display_id, dataset, src, catalogue_only, force_redownload_file) ==
    [display_id |-> display_id, dataset |-> dataset, src |-> src,
     catalogue_only |-> catalogue_only, force |-> force_redownload_file,
     workdir |-> TRUE, conflict |-> 0,
     pc |-> "download", depth |-> 0,
     filename |-> "", data_suffix |-> "", data_size |-> 0, data_state |-> "none",
     xml |-> FALSE, pregenerated |-> FALSE, feature |-> "none", assets |-> {},
     links |-> {},
     thumbnail |-> FALSE, feature_id |-> PyNone,
     raised |-> {}, exception_occurred |-> NoExc]

\* the scene of a task: its dataset and display id
Scene(t) == [dataset |-> t.dataset, id |-> t.display_id]

\* what the process owns besides the tasks: bucket, catalog, STAC client and
\* a log of what the tasks of the current run did (uploaded keys, scenes
\* streamed from the source, scenes whose thumbnail was derived, catalog
\* requests, scenes posted, scenes updated)
Shared(st, cat, stac, log) == [store |-> st, cat |-> cat, stac |-> stac, log |-> log]
EmptyLog == [uploads |-> {}, streamed |-> {}, derived |-> {}, reqs |-> {},
             posted |-> {}, updated |-> {}]

\* what the environment does during one step of a task
\*   get    "ok", or the GET of the download URL fails
\*   short  whether the stream ends before Content-Length bytes
\*   err    the error code of the bucket request of the step ("" for none)
\*   left   what a failed transfer from the bucket leaves in the local file:
\*          "empty" (it failed before the first chunk) or "readable" (the
\*          chunks that arrived hold every member the task reads)
\*   net    what the network does to the catalog requests of the step
Env(get, short, err, left, net) ==
    [get |-> get, short |-> short, err |-> err, left |-> left, net |-> net]
BenignEnv == Env("ok", FALSE, "", "empty", Benign)

\* _get_s3_bucket_key_of_file: dataset/filename
get_s3_bucket_key_of_file(t, suffix) == Key(t.dataset, t.display_id, suffix)

\* the except clause of process: the exception becomes data (raised is
\* history: every exception a call of process has raised)
Failed(t, sh, exc) ==
    [t |-> [t EXCEPT !.pc = "failed", !.exception_occurred = exc,
                     !.raised = @ \cup {exc}],
     sh |-> sh]
Goto(t, sh, pc) == [t |-> [t EXCEPT !.pc = pc], sh |-> sh]

\* an upload of a task: the bucket call and the log entry
Upload(t, sh, suffix, obj, err, next) ==
    LET key == get_s3_bucket_key_of_file(t, suffix)
        r == upload_file(sh.store, key, obj, err)
    IN  IF r.exc # NoExc
        THEN Failed(t, sh, r.exc)
        ELSE Goto(t, [sh EXCEPT !.store = r.store,
                                !.log.uploads = @ \cup {key}], next)

\* a mutant of _check_if_already_downloaded: the bucket is asked whatever
\* _force_redownload_file
check_if_already_downloaded_unforced(t, st, expected_length, err) ==
    check_if_key_exists(st, get_s3_bucket_key_of_file(t, t.filename),
                        expected_length, err, err)

\* a mutant of _check_if_already_downloaded: the bucket is not asked
check_if_already_downloaded_never(t, st, expected_length, err) ==
    S3Result(st, PyFalse, NoExc)

\* _check_if_already_downloaded
check_if_already_downloaded(t, st, expected_length, err) ==
    IF t.force
    THEN S3Result(st, PyFalse, NoExc)
    ELSE check_if_key_exists(st, get_s3_bucket_key_of_file(t, t.filename),
                             expected_length, err, err)

DifferentSize == Exc("DownloadedFileDownloadedFileHasDifferentSize", "")

\* a mutant of the size test of _download_self: the sizes are not compared
has_different_size_never(catalogue_only, expected_size, real_size) == FALSE

\* the size test of _download_self
has_different_size(catalogue_only, expected_size, real_size) ==
    (~catalogue_only) /\ expected_size # real_size

\* _download_self, with the loop of process around it: a size mismatch
\* leaves the task at "download"
download_self(t, sh0, now, e) ==
    \* requests.get(self._url, stream=True)
    LET sh == [sh0 EXCEPT !.log.reqs = @ \cup {Req("usgs", "download", t.display_id, FALSE,
                                                    PyNone, now, now)}]
    IN
    IF e.get # "ok"
    THEN Failed(t, sh, Exc("ConnectionError", "get"))
    ELSE IF t.src.filename = ""
    THEN Failed(t, sh, Exc("DownloadedFileUrlDoesNotContainFilename", ""))
    ELSE LET t1 == [t EXCEPT !.filename = t.src.filename]
             \* response.headers['Content-Length'] is a string
             header == PyStr(t.src.length)
             c == check_if_already_downloaded(t1, sh.store, header, e.err)
             sh1 == [sh EXCEPT !.store = c.store]
         IN  IF c.exc # NoExc
             THEN Failed(t1, sh1, c.exc)
             ELSE IF c.ret = PyTrue
             THEN Goto(t1, sh1, "s3_fetch")
             ELSE LET expected_size == int(header).v
                      real_size == IF e.short THEN expected_size - 1 ELSE expected_size
                      sh2 == [sh1 EXCEPT !.log.streamed = @ \cup {Scene(t)}]
                      t2 == [t1 EXCEPT !.data_suffix = t1.filename]
                  IN  IF has_different_size(t.catalogue_only, expected_size, real_size)
                      THEN \* the file is unlinked, the exception is caught by the
                           \* while loop of process: continue
                           Goto([t2 EXCEPT !.data_state = "none", !.data_size = 0,
                                           !.raised = @ \cup {DifferentSize}],
                                sh2, "download")
                      ELSE Goto([t2 EXCEPT !.data_size = real_size,
                                           !.data_state = IF real_size = expected_size
                                                          THEN "valid" ELSE "truncated"],
                                sh2, "upload_data")

\* _download_feature_from_s3 and the except clause around it in process
download_feature_from_s3(t, sh, e) ==
    LET t0 == [t EXCEPT !.data_suffix = ".tar"]
        r == download_file(sh.store, get_s3_bucket_key_of_file(t0, ".tar"), e.err)
        t1 == [t0 EXCEPT !.raised = IF r.exc = NoExc THEN @ ELSE @ \cup {r.exc}]
    IN  IF r.exc = NoExc
        THEN Goto([t1 EXCEPT !.data_size = r.obj.size,
                             !.data_state = IF r.obj.kind = "raw" /\ r.obj.val = 1
                                            THEN "valid" ELSE "truncated"],
                  sh, "untar")
        ELSE IF r.exc.type = "ClientError"
        THEN IF r.exc.info = "404"
             THEN \* force the download and run process again
                  Goto([t1 EXCEPT !.force = TRUE, !.depth = @ + 1,
                                  !.data_state = "empty", !.data_size = 0],
                       sh, "download")
             ELSE \* any other ClientError is dropped: process goes on with the
                  \* local file as the failed transfer left it (empty when
                  \* the bucket holds no such key: there is nothing to send)
                  Goto([t1 EXCEPT !.data_state =
                                      IF get_s3_bucket_key_of_file(t0, ".tar") \in DOMAIN sh.store
                                      THEN e.left ELSE "empty",
                                  !.data_size = 0], sh, "untar")
        ELSE Failed([t1 EXCEPT !.data_state = "empty", !.data_size = 0], sh, r.exc)

\* _untar_metadata
untar_metadata(t, sh) ==
    IF t.data_state \notin {"valid", "readable"}
    THEN Failed(t, sh, Exc("ReadError", ""))
    ELSE IF ~t.src.has_mtl
    THEN Failed(t, sh, Exc("DownloadedFileDoesNotContainMetadata", ""))
    ELSE Goto([t EXCEPT !.xml = TRUE, !.pregenerated = t.src.has_stac], sh, "upload_xml")

\* the keys of assets and links of the item stactools builds from the
\* metadata of an archive, and of the item USGS puts into the archive: an
\* asset for each band file and for the metadata, a link to the source
StacItemDict(src) == [assets |-> src.bands \cup {"mtl.xml", "mtl.json"}, links |-> {"via"}]

\* a mutant of _stac_item_clear: the item is left as it is
stac_item_clear_nothing(stac_item_dict) == stac_item_dict

\* _stac_item_clear
stac_item_clear(stac_item_dict) == [stac_item_dict EXCEPT !.assets = {}, !.links = {}]

\* _create_feature from its last two statements on
feature_created(t, sh, feature, stac_item_dict) ==
    Goto([t EXCEPT !.feature = feature, !.assets = stac_item_dict.assets,
                   !.links = stac_item_dict.links], sh, "thumbnail")

\* _create_feature
create_feature(t, sh) ==
    IF t.src.parser_ok
    THEN feature_created(t, sh, "stactools", stac_item_clear(StacItemDict(t.src)))
    ELSE IF t.pregenerated
    THEN feature_created(t, sh, "pregenerated", stac_item_clear(StacItemDict(t.src)))
    ELSE Failed(t, sh, Exc("DownloadedFileCannotCreateStacItem", ""))

\* the band files _generate_thumbnail looks for, by dataset and platform:
\* blue, green, red, nir ("" where it looks for none); ok is FALSE for a
\* dataset or platform it does not know
Wanted(ok, blue, green, red, nir) ==
    [ok |-> ok, blue |-> blue, green |-> green, red |-> red, nir |-> nir]
WantedBands(dataset, platform) ==
    IF dataset \in {"landsat_ot_c2_l1", "landsat_ot_c2_l2"}
    THEN Wanted("ok", "B2", "B3", "B4", "")
    ELSE IF dataset \in {"landsat_etm_c2_l1", "landsat_etm_c2_l2",
                         "landsat_tm_c2_l1", "landsat_tm_c2_l2"}
    THEN Wanted("ok", "B1", "B2", "B3", "")
    ELSE IF dataset = "landsat_mss_c2_l1"
    THEN IF platform \in {"landsat-1", "landsat-2", "landsat-3"}
         THEN Wanted("ok", "", "B4", "B5", "B6")
         ELSE IF platform \in {"landsat-4", "landsat-5"}
         THEN Wanted("ok", "", "B1", "B2", "B3")
         ELSE Wanted("platform", "", "", "", "")
    ELSE Wanted("dataset", "", "", "", "")

\* a mutant of _generate_thumbnail: nothing is derived for a scene whose
\* thumbnail the bucket holds
generate_thumbnail_unless_stored(t, sh) ==
    IF get_s3_bucket_key_of_file(t, "_thumbnail.jpg") \in DOMAIN sh.store
    THEN Goto([t EXCEPT !.thumbnail = TRUE], sh, "upload_thumbnail")
    ELSE Goto(t, sh, "combine")

\* _generate_thumbnail up to its call of _combine_tifs
generate_thumbnail(t, sh) ==
    LET w == WantedBands(t.dataset, t.src.platform)
        found(name) == name # "" /\ name \in t.src.bands
    IN  IF t.data_state \notin {"valid", "readable"}
        THEN Failed(t, sh, Exc("ReadError", ""))
        ELSE IF w.ok = "platform"
        THEN Failed(t, sh, Exc("ValueError", "Unexpected platform"))
        ELSE IF w.ok = "dataset"
        THEN Failed(t, sh, Exc("ValueError", "Unexpected dataset"))
        ELSE IF \/ found(w.blue) /\ found(w.green) /\ found(w.red)
                \/ found(w.green) /\ found(w.red) /\ found(w.nir)
        THEN Goto(t, sh, "combine")
        ELSE Failed(t, sh, Exc("ValueError", "Thumbnail suitable data not found"))

\* _combine_tifs, and the return of _generate_thumbnail with the path of the
\* thumbnail
combine_tifs(t, sh) ==
    Goto([t EXCEPT !.thumbnail = TRUE],
         [sh EXCEPT !.log.derived = @ \cup {Scene(t)}], "upload_thumbnail")

\* the keys of _dataset_fullname
dataset_fullname_keys ==
    {"landsat_ot_c2_l1", "landsat_ot_c2_l2", "landsat_etm_c2_l1", "landsat_etm_c2_l2",
     "landsat_tm_c2_l1", "landsat_tm_c2_l2", "landsat_mss_c2_l1"}

\* _append_assets_to_feature
append_assets_to_feature(t, sh) ==
    IF t.dataset \notin dataset_fullname_keys
    THEN Failed(t, sh, Exc("KeyError", "dataset"))
    ELSE \* self._feature_dict['assets'].update({...})
         Goto([t EXCEPT !.assets = @ \cup {"mtl.xml", "data", "thumbnail"}], sh, "register")

\* the call of register_stac_item in process
\* the client, the catalog and the log after a call of register_stac_item
\* whose result is r
Registered(t, sh, r) ==
    [sh EXCEPT !.stac = r.cl, !.cat = r.cat,
               !.log.reqs = @ \cup r.reqs,
               !.log.posted = @ \cup {q \in {Scene(t)} :
                                        \E x \in r.reqs : x.endpoint = "items_post"},
               !.log.updated = @ \cup {q \in {Scene(t)} :
                                         \E x \in r.reqs : x.endpoint = "items_put"}]
\* a mutant of the call of register_stac_item in process: an exception of
\* the registration is dropped and the id 0 is kept
register_answered_dropped(t, sh1, r) ==
    IF r.exc # NoExc
    THEN Goto([t EXCEPT !.feature_id = PyInt(0)], sh1, "dump")
    ELSE Goto([t EXCEPT !.feature_id = r.ret], sh1, "dump")

register_answered(t, sh1, r) ==
    IF r.exc # NoExc
    THEN Failed(t, sh1, r.exc)
    ELSE Goto([t EXCEPT !.feature_id = r.ret], sh1, "dump")
register_with(t, sh, r) == register_answered(t, Registered(t, sh, r), r)
register(t, sh, now, e) ==
    register_with(t, sh,
                  register_stac_item(sh.stac, sh.cat, now, t.display_id, t.dataset, e.net))

\* one step of process: the call at which the task stands
Step(t, sh, now, e) ==
    CASE t.pc = "download" -> download_self(t, sh, now, e)
      [] t.pc = "upload_data" ->
            Upload(t, sh, t.data_suffix,
                   Object(t.data_size, "raw", t.display_id,
                          IF t.data_state = "valid" THEN 1 ELSE 0),
                   e.err, "untar")
      [] t.pc = "s3_fetch" -> download_feature_from_s3(t, sh, e)
      [] t.pc = "untar" -> untar_metadata(t, sh)
      [] t.pc = "upload_xml" ->
            Upload(t, sh, "_MTL.xml", Object(1, "xml", t.display_id, 0), e.err,
                   "create_feature")
      [] t.pc = "create_feature" -> create_feature(t, sh)
      [] t.pc = "thumbnail" -> generate_thumbnail(t, sh)
      [] t.pc = "combine" -> combine_tifs(t, sh)
      [] t.pc = "upload_thumbnail" ->
            Upload(t, sh, "_thumbnail.jpg", Object(1, "thumbnail", t.display_id, 0),
                   e.err, "append_assets")
      [] t.pc = "append_assets" -> append_assets_to_feature(t, sh)
      [] t.pc = "register" -> register(t, sh, now, e)
      [] t.pc = "dump" -> Goto(t, sh, "upload_feature")
      [] t.pc = "upload_feature" ->
            Upload(t, sh, "_feature.json", Object(1, "feature", t.display_id, 0),
                   e.err, "upload_marker")
      [] t.pc = "upload_marker" ->
            Upload(t, sh, "_featureId.json",
                   Object(1, "marker", t.display_id, t.feature_id.v), e.err, "done")
      [] OTHER -> [t |-> t, sh |-> sh]

Terminal(t) == t.pc \in {"done", "failed"}

(***************************************************************************)
(* register_stac_item as the thread of a task goes through it, statement   *)
(* by statement where it reads or writes the fields of the STACConnector   *)
(* the tasks share.  The network is without faults.                        *)
(***************************************************************************)
\* register_stac_item: the Authorization header from _stac_token, the POST
\* and its answer
register_post(t, sh, now) ==
    LET existing == {it \in sh.cat : it.collection = t.dataset /\ it.item = t.display_id}
        sh1 == [sh EXCEPT !.log.reqs = @ \cup {Req("stac", "items_post", 0, TRUE,
                                                   sh.stac.token, now,
                                                   sh.stac.valid_until)},
                          !.log.posted = @ \cup {Scene(t)}]
    IN  IF sh.stac.token = PyNone
        THEN \* 'Bearer ' + None
             Failed(t, sh, Exc("TypeError", "Bearer"))
        ELSE IF existing # {}
        THEN Goto([t EXCEPT !.conflict =
                       ConflictId(ConflictMessage((CHOOSE it \in existing : TRUE).fid))],
                  sh1, "update")
        ELSE Goto([t EXCEPT !.feature_id = PyInt(FeatureId(t.dataset, t.display_id))],
                  [sh1 EXCEPT !.cat = Created(sh.cat, t.dataset, t.display_id)], "dump")

\* update_stac_item: the Authorization header from _stac_token
update_headers(t, sh) ==
    IF sh.stac.token = PyNone
    THEN Failed([t EXCEPT !.conflict = 0], sh, Exc("TypeError", "Bearer"))
    ELSE Goto(t, sh, "send")

\* _send_request: the expiry test
send_expiry_test(t, sh, now) ==
    IF STAC_expired(sh.stac, now) THEN Goto(t, sh, "login") ELSE Goto(t, sh, "send_header")

\* _login up to its request: _stac_token = None, _api_token_valid_until
login_reset(t, sh, now) ==
    Goto(t, [sh EXCEPT !.stac = StacClient(PyNone, now + StacTokenHours)], "auth")

\* _login from its request on: the auth request, _stac_token from the answer
login_auth(t, sh, now) ==
    Goto(t, [sh EXCEPT !.stac.token = PyInt(sh.stac.valid_until),
                       !.log.reqs = @ \cup {Req("stac", "auth", 0, FALSE, sh.stac.token,
                                                now, sh.stac.valid_until)}],
         "send_header")

\* _send_request from the Authorization header on, and update_stac_item and
\* register_stac_item after it
send_put(t, sh, now) ==
    IF sh.stac.token = PyNone
    THEN Failed([t EXCEPT !.conflict = 0], sh, Exc("TypeError", "Bearer"))
    ELSE LET put == Req("stac", "items_put", t.conflict, TRUE, sh.stac.token, now,
                        sh.stac.valid_until)
         IN  register_answered(
                 [t EXCEPT !.conflict = 0],
                 [sh EXCEPT !.log.reqs = @ \cup {put},
                               !.log.updated = @ \cup {Scene(t)}],
                 update_stac_item_answered(CallResult(sh.stac, NoExc, {put}), sh.cat,
                                           t.dataset, t.conflict))

\* one step of the thread of a task
thread_step(t, sh, now) ==
    CASE t.pc = "register" -> register_post(t, sh, now)
      [] t.pc = "update" -> update_headers(t, sh)
      [] t.pc = "send" -> send_expiry_test(t, sh, now)
      [] t.pc = "login" -> login_reset(t, sh, now)
      [] t.pc = "auth" -> login_auth(t, sh, now)
      [] t.pc = "send_header" -> send_put(t, sh, now)
      [] OTHER -> Step(t, sh, now, BenignEnv)

\* process, run to its end in an environment without faults
RECURSIVE process(_, _, _)
RECURSIVE process_from(_, _)
process(t, sh, now) ==
    IF Terminal(t)
    THEN [t |-> t, sh |-> sh]
    ELSE process_from(Step(t, sh, now, BenignEnv), now)
\* process after a call that left the task and the rest as r says
process_from(r, now) == process(r.t, r.sh, now)

(***************************************************************************)
(* LandsatDownloader.  Dates are day numbers; the clock now counts hours.  *)
(***************************************************************************)
\* datetime.timedelta(weeks=4), in days
weeks4 == 28
\* the ceiling of started threads in run
max_started_threads == 10
\* the datasets the downloader is constructed with
demanded_datasets == <<"landsat_ot_c2_l1", "landsat_mss_c2_l1">>

today(now) == now \div 24

\* _last_downloaded_day_filename, in the root of the bucket
last_downloaded_day_key == Key("", 0, "last_downloaded_day.json")
DayObject(day) == Object(1, "day", 0, day)

\* a mutant of _create_array_of_downloadable_days: the loop stops a day
\* before date_to
RECURSIVE create_array_until_yesterday(_, _)
create_array_until_yesterday(date_from, date_to) ==
    IF date_from + 1 < date_to
    THEN <<date_from + 1>> \o create_array_until_yesterday(date_from + 1, date_to)
    ELSE <<>>

\* _create_array_of_downloadable_days
RECURSIVE create_array_of_downloadable_days(_, _)
create_array_of_downloadable_days(date_from, date_to) ==
    IF date_from < date_to
    THEN <<date_from + 1>> \o create_array_of_downloadable_days(date_from + 1, date_to)
    ELSE <<>>

\* a mutant of _get_downloadable_days: the days begin at the checkpoint
\* whatever the four weeks
get_downloadable_days_since_checkpoint(utc_today, last_downloaded_day) ==
    create_array_of_downloadable_days(last_downloaded_day, utc_today)

\* a mutant of _get_downloadable_days: the days begin four weeks back
\* whatever the checkpoint
get_downloadable_days_window(utc_today, last_downloaded_day) ==
    create_array_of_downloadable_days(utc_today - weeks4, utc_today)

\* _get_downloadable_days, given utcnow().date() and the stored checkpoint
get_downloadable_days(utc_today, last_downloaded_day) ==
    LET should_be_checked_since == utc_today - weeks4
        date_from == IF last_downloaded_day < should_be_checked_since
                     THEN last_downloaded_day
                     ELSE should_be_checked_since
    IN  create_array_of_downloadable_days(date_from, utc_today)

\* a mutant of _update_last_downloaded_day: the checkpoint is written
\* whatever the checkpoint read at the start of the run
update_last_downloaded_day_always(st, last_downloaded_day, day, err) ==
    upload_file(st, last_downloaded_day_key, DayObject(day), err)

\* _update_last_downloaded_day
update_last_downloaded_day(st, last_downloaded_day, day, err) ==
    IF last_downloaded_day > day
    THEN S3Result(st, PyNone, NoExc)
    ELSE upload_file(st, last_downloaded_day_key, DayObject(day), err)

\* the loop over downloaded_files at the end of a triple: the index of the
\* first file, in list order, that recorded an exception (0 if none did)
RECURSIVE first_failed_from(_, _)
first_failed_from(files, i) ==
    IF i > Len(files)
    THEN 0
    ELSE IF files[i].exception_occurred # NoExc
    THEN i
    ELSE first_failed_from(files, i + 1)

\* the last file, in list order, that recorded an exception (0 if none did)
RECURSIVE last_failed_from(_, _)
last_failed_from(files, i) ==
    IF i = 0
    THEN 0
    ELSE IF files[i].exception_occurred # NoExc
    THEN i
    ELSE last_failed_from(files, i - 1)

\* a mutant of the loop: the recorded exceptions are not looked at
first_failed_ignored(files) == 0
\* a mutant of the loop: it runs over the list from its end
first_failed_last(files) == last_failed_from(files, Len(files))
first_failed(files) == first_failed_from(files, 1)

\* a mutant of the test of the start loop: one thread more is let in
may_start_11(started_threads) == Len(started_threads) < max_started_threads + 1
\* the test of the start loop: len(started_threads) < 10
may_start(started_threads) == Len(started_threads) < max_started_threads

\* a mutant of the join at the end of a triple: no thread is waited for
joined_none(ths) == TRUE
\* the join at the end of a triple returns: every thread has terminated
joined(ths) == \A i \in 1..Len(ths) : ths[i] = "dead"

(***************************************************************************)
(* The upstream catalog.  A world says which scenes the M2M API lists:     *)
(* n scenes of the first dataset and the scenes of the second dataset,     *)
(* all acquired on sceneDay; the scenes in bad have no usable band files.  *)
(***************************************************************************)
\* most scenes one triple lists
MaxScenes == 25
\* the day of the first run
StartDay == 40

GoodSource == Source(".tar", 2, TRUE, TRUE, TRUE, {"B2", "B3", "B4"}, "landsat-8")
NoBandsSource == Source(".tar", 2, TRUE, TRUE, TRUE, {}, "landsat-8")
MssSource(platform) == Source(".tar", 2, TRUE, TRUE, TRUE, {"B1", "B2", "B3"}, platform)

\* attributes of one downloadable file, as get_downloadable_files returns them
Attributes(display_id, dataset, src) ==
    [displayId |-> display_id, dataset |-> dataset, url |-> src]

Upstream(w, day, dataset) ==
    IF day # w.sceneDay
    THEN <<>>
    ELSE IF dataset = demanded_datasets[1]
    THEN [i \in 1..w.n |-> Attributes(i, dataset,
                                      IF i \in w.bad THEN NoBandsSource ELSE GoodSource)]
    ELSE IF w.second = "none"
    THEN <<>>
    ELSE <<Attributes(1, dataset, MssSource(w.second))>>

\* positions in a triple's list whose scene may be a bad one: in the first
\* group of started threads and in the second
BadPositions == {1, max_started_threads + 1}
\* up to this many scenes the worlds also vary the second dataset
FewScenes == 2

\* the numbers of scenes of the first dataset: few, one full group of
\* threads, one thread more, and the most
SceneCounts ==
    (0..FewScenes) \cup {max_started_threads, max_started_threads + 1, MaxScenes}

\* listed: whether the scene list the M2M API keeps under the label
\* landsat_config.m2m_scene_label holds scenes
World(n, bad, second) ==
    [sceneDay |-> StartDay - 2, n |-> n, bad |-> bad, second |-> second,
     listed |-> FALSE]
Worlds ==
    UNION {{World(n, bad, second) :
              bad \in SUBSET (BadPositions \cap 1..n),
              second \in IF n <= FewScenes
                         THEN {"none", "landsat-5", "landsat-9"}
                         ELSE {"none"}} :
           n \in SceneCounts}

(***************************************************************************)
(* State.                                                                  *)
(***************************************************************************)
VARIABLES
    sh,       \* bucket, catalog, STAC client, log of the current run
    m2m,      \* the M2M client
    now,      \* the clock, in hours
    tasks,    \* downloaded_files of the current triple
    threads,  \* the thread of each task: "new", "alive" or "dead"
    orch,     \* run: its position and local variables
    world,    \* the upstream catalog
    hist,     \* history: days whose checkpoint the current run wrote
    call      \* the call a driver of a connector makes at this instant

vars == <<sh, m2m, now, tasks, threads, orch, world, hist, call>>

\* a call of a driver: the operation, its arguments (key and arg of a
\* bucket call, item and dataset of a catalog call), what it found (pre: the
\* object under the key; existed: whether the key or the item existed;
\* token: the token of the client), the network (benign: without faults)
\* and its result (ret, exc, the requests sent)
Call(op, key, arg, pre, existed, item, dataset, token, benign, ret, exc, reqs) ==
    [op |-> op, key |-> key, arg |-> arg, pre |-> pre, existed |-> existed,
     item |-> item, dataset |-> dataset, token |-> token, benign |-> benign,
     ret |-> ret, exc |-> exc, reqs |-> reqs]
NoCall == Call("none", last_downloaded_day_key, PyNone, NoObject, FALSE, 0, "",
               PyNone, TRUE, PyNone, NoExc, {})

Orch(pc, days, d, ds, last_downloaded_day, started_threads, k, exc, raised_from) ==
    [pc |-> pc, days |-> days, d |-> d, ds |-> ds,
     last_downloaded_day |-> last_downloaded_day,
     started_threads |-> started_threads, k |-> k, exc |-> exc,
     raised_from |-> raised_from,
     \* thread_lock = threading.Lock(): the task that holds it (0: none)
     thread_lock |-> 0]
IdleOrch == Orch("idle", <<>>, 0, 0, 0, <<>>, 0, NoExc, 0)

\* writes: the days whose checkpoint the run wrote; created, started,
\* finished: the tasks created, the threads started and the threads ended
\* since the current day began; joined: the triples of the current day whose
\* threads were all joined; failed_day: the day of the first task of the run
\* that recorded an exception (0 if none did)
\* returned: what the successful calls of register_stac_item returned
\* run: the calls of run so far; before: the bucket when the current run
\* began; changed: whether the upstream catalog changed between the last run
\* and the current one; clean: whether the last run returned normally
\* redo: whether the number of size mismatches a task alone has met is odd
\* pending: whether run has called get_downloadable_files and has not called
\* scene_list_remove since
\* garbage: the DownloadedFile objects run no longer refers to whose __del__
\* has not run; logins: the auth requests the tasks of the run have sent
\* dropped: whether a call of a task alone has deleted the archive of its
\* scene from the bucket
NoHist == [writes |-> {}, created |-> 0, started |-> 0, finished |-> 0, joined |-> 0,
           failed_day |-> 0, returned |-> {}, run |-> 0, before |-> EmptyBucket,
           changed |-> FALSE, clean |-> FALSE, redo |-> FALSE, pending |-> FALSE,
           garbage |-> 0, logins |-> 0, dropped |-> FALSE]

\* the state after the construction of LandsatDownloader on StartDay, at
\* 9 o'clock: both clients logged in, the bucket holding the checkpoint
InitWith(w, last0) ==
    /\ now = StartDay * 24 + 9
    /\ sh = Shared(BucketPut(EmptyBucket, last_downloaded_day_key, DayObject(last0)),
                   EmptyCatalog,
                   StacClient(PyInt(now + StacTokenHours), now + StacTokenHours),
                   EmptyLog)
    /\ m2m = M2MClient(PyInt(now + M2MTokenHours), now + M2MTokenHours)
    /\ tasks = <<>>
    /\ threads = <<>>
    /\ orch = IdleOrch
    /\ world = w
    /\ hist = NoHist
    /\ call = NoCall

(***************************************************************************)
(* LandsatDownloader.run.                                                  *)
(***************************************************************************)
\* error codes with which a bucket request of run may fail
RunFaults == {"", "500"}

Raise(exc, from) == [orch EXCEPT !.pc = "raised", !.exc = exc, !.raised_from = from]

\* run, up to the first triple: _get_downloadable_days
RunBegin(err) ==
    /\ orch.pc = "idle"
    /\ LET r == download_file(sh.store, last_downloaded_day_key, err)
       IN  IF r.exc # NoExc
           THEN orch' = Raise(r.exc, 0)
           ELSE orch' = Orch("discover",
                             get_downloadable_days(today(now), r.obj.val),
                             1, 1, r.obj.val, <<>>, 0, NoExc, 0)
    /\ sh' = [sh EXCEPT !.log = EmptyLog]
    /\ hist' = [NoHist EXCEPT !.run = hist.run + 1, !.before = sh.store,
                              !.changed = hist.changed, !.clean = hist.clean,
                              !.garbage = hist.garbage + Len(tasks)]
    /\ tasks' = <<>>
    /\ threads' = <<>>
    /\ UNCHANGED <<m2m, now, world, call>>

\* get_downloadable_files of the next triple, and the construction of its
\* DownloadedFile objects and threads.  There is one geojson file, so a
\* triple is a day and a dataset.  run passes workdir= to DownloadedFile,
\* a keyword __init__ does not declare; the construction is taken to
\* succeed, as with an __init__ that accepts and ignores it.
\* fault names the request of get_downloadable_files whose attempts all
\* time out ("" if none does): the scene_list_remove it begins with, the
\* scene-search, or the download-options that follows _scene_list_add when
\* the search found scenes.
DiscoverFaults == {"", "scene-list-remove", "scene-search", "download-options"}

\* the scene list of the label after get_downloadable_files
get_downloadable_files_listed(listed, fault, files) ==
    IF fault = "scene-list-remove" THEN listed
    ELSE IF fault = "scene-search" THEN FALSE
    ELSE files # <<>>

Discover(fault) ==
    /\ orch.pc = "discover"
    /\ fault = "download-options" =>
           Upstream(world, orch.days[orch.d], demanded_datasets[orch.ds]) # <<>>
    /\ IF fault # ""
       THEN /\ orch' = Raise(Exc("M2MAPIRequestTimeout", ""), 0)
            /\ UNCHANGED <<tasks, threads>>
       ELSE LET files == Upstream(world, orch.days[orch.d], demanded_datasets[orch.ds])
            IN  /\ tasks' = [i \in 1..Len(files) |->
                               DownloadedFile(files[i].displayId, files[i].dataset,
                                              files[i].url, catalogue_only_default,
                                              force_redownload_file_default)]
                /\ threads' = [i \in 1..Len(files) |-> "new"]
                /\ orch' = [orch EXCEPT !.pc = "start", !.started_threads = <<>>, !.k = 1]
    /\ hist' = IF fault # "" THEN [hist EXCEPT !.pending = TRUE]
               ELSE [hist EXCEPT !.created = @ + Len(Upstream(world, orch.days[orch.d],
                                                              demanded_datasets[orch.ds])),
                                 !.pending = TRUE,
                                 \* downloaded_files = []: the objects of the
                                 \* last triple are let go
                                 !.garbage = @ + Len(tasks)]
    /\ world' = [world EXCEPT !.listed =
                     get_downloadable_files_listed(@, fault,
                         Upstream(world, orch.days[orch.d], demanded_datasets[orch.ds]))]
    /\ UNCHANGED <<sh, m2m, now, call>>

\* the start loop, fewer than 10 threads started: thread.start()
StartThread ==
    /\ orch.pc = "start"
    /\ orch.k <= Len(threads)
    /\ may_start(orch.started_threads)
    /\ threads' = [threads EXCEPT ![orch.k] = "alive"]
    /\ orch' = [orch EXCEPT !.started_threads = Append(@, orch.k), !.k = @ + 1]
    /\ hist' = [hist EXCEPT !.started = @ + 1]
    /\ UNCHANGED <<sh, m2m, now, tasks, world, call>>

\* the start loop, 10 threads started: they are joined, the list is
\* cleared and the thread is started
JoinStartedThenStart ==
    /\ orch.pc = "start"
    /\ orch.k <= Len(threads)
    /\ ~may_start(orch.started_threads)
    /\ \A i \in 1..Len(orch.started_threads) : threads[orch.started_threads[i]] = "dead"
    /\ threads' = [threads EXCEPT ![orch.k] = "alive"]
    /\ orch' = [orch EXCEPT !.started_threads = <<orch.k>>, !.k = @ + 1]
    /\ hist' = [hist EXCEPT !.started = @ + 1]
    /\ UNCHANGED <<sh, m2m, now, tasks, world, call>>

\* a thread runs process of its task to the end
ThreadEnds(i, r) ==
    /\ tasks' = [tasks EXCEPT ![i] = r.t]
    /\ sh' = r.sh
    /\ hist' = [hist EXCEPT !.finished = @ + 1,
                            !.failed_day =
                                IF @ = 0 /\ r.t.exception_occurred # NoExc
                                THEN orch.days[orch.d] ELSE @]
ThreadRun(i) ==
    /\ threads[i] = "alive"
    /\ ThreadEnds(i, process(tasks[i], sh, now))
    /\ threads' = [threads EXCEPT ![i] = "dead"]
    /\ UNCHANGED <<m2m, now, orch, world, call>>

\* the end of a triple: every thread is joined, the scene list is removed,
\* the first recorded exception is raised; after the last triple of a day
\* _update_last_downloaded_day
JoinAll(removeFault, err) ==
    /\ orch.pc = "start"
    /\ orch.k > Len(threads)
    /\ joined(threads)
    /\ LET f == first_failed(tasks)
           day == orch.days[orch.d]
           u == update_last_downloaded_day(sh.store, orch.last_downloaded_day, day, err)
       IN  IF removeFault
           THEN /\ orch' = Raise(Exc("M2MAPIRequestTimeout", ""), 0)
                /\ hist' = [hist EXCEPT !.joined = @ + 1, !.pending = FALSE]
                /\ UNCHANGED sh
           ELSE IF f # 0
           THEN /\ orch' = Raise(tasks[f].exception_occurred, f)
                /\ hist' = [hist EXCEPT !.joined = @ + 1, !.pending = FALSE]
                /\ UNCHANGED sh
           ELSE IF orch.ds < Len(demanded_datasets)
           THEN /\ orch' = [orch EXCEPT !.pc = "discover", !.ds = @ + 1]
                /\ hist' = [hist EXCEPT !.joined = @ + 1, !.pending = FALSE]
                /\ UNCHANGED sh
           ELSE IF u.exc # NoExc
           THEN /\ orch' = Raise(u.exc, 0)
                /\ hist' = [hist EXCEPT !.joined = @ + 1, !.pending = FALSE]
                /\ UNCHANGED sh
           ELSE /\ sh' = [sh EXCEPT !.store = u.store,
                                    !.log.uploads = IF u.store = sh.store
                                                        /\ orch.last_downloaded_day > day
                                                    THEN @
                                                    ELSE @ \cup {last_downloaded_day_key}]
                /\ hist' = [hist EXCEPT !.writes = IF orch.last_downloaded_day > day
                                                   THEN @ ELSE @ \cup {day},
                                        !.created = 0, !.started = 0, !.finished = 0,
                                        !.joined = 0, !.pending = FALSE]
                /\ orch' = IF orch.d < Len(orch.days)
                           THEN [orch EXCEPT !.pc = "discover", !.d = @ + 1, !.ds = 1]
                           ELSE [orch EXCEPT !.pc = "returned"]
    \* scene_list_remove(scene_label)
    /\ world' = [world EXCEPT !.listed = IF removeFault THEN @ ELSE FALSE]
    /\ UNCHANGED <<m2m, now, tasks, threads, call>>

\* checkpoints the bucket may hold when the downloader starts
InitialCheckpoints == {StartDay - weeks4 - 2, StartDay - 3}

InitRun ==
    \E w \in Worlds :
        \E last0 \in IF w.n <= FewScenes THEN InitialCheckpoints
                      ELSE {StartDay - weeks4 - 2} :
            InitWith(w, last0)

NextRun ==
    \/ \E err \in RunFaults : RunBegin(err)
    \/ \E fault \in DiscoverFaults : Discover(fault)
    \/ StartThread
    \/ JoinStartedThenStart
    \/ \E i \in 1..Len(threads) : ThreadRun(i)
    \/ \E removeFault \in BOOLEAN, err \in RunFaults : JoinAll(removeFault, err)

SpecRun == InitRun /\ [][NextRun]_vars

(***************************************************************************)
(* The loop of main.py around run: the downloader is constructed once and  *)
(* run is called again, an hour after a run that raised and on the next    *)
(* day after a run that returned; between two runs the upstream catalog    *)
(* may list one more scene.  The only fault is an outage of the M2M API    *)
(* in the first run, after the first triple of the day of the scenes.      *)
(***************************************************************************)
\* the calls of run
MaxRuns == 2

\* exception_wait(): an hour; after a run that returned the loop sleeps
\* until 60 seconds after 9:00 of the day after the run began, which the
\* clock of hours counts as 10:00
Rerun ==
    /\ orch.pc \in {"returned", "raised"}
    /\ hist.run < MaxRuns
    /\ now' = IF orch.pc = "returned" THEN (today(now) + 1) * 24 + 10 ELSE now + 1
    /\ orch' = IdleOrch
    /\ hist' = [hist EXCEPT !.changed = FALSE, !.clean = (orch.pc = "returned")]
    /\ UNCHANGED <<sh, m2m, tasks, threads, world, call>>

\* between two runs the M2M API comes to list one more scene of the first
\* dataset
Publish ==
    /\ orch.pc = "idle"
    /\ hist.run >= 1
    /\ ~hist.changed
    /\ world.n < FewScenes
    /\ world' = [world EXCEPT !.n = @ + 1]
    /\ hist' = [hist EXCEPT !.changed = TRUE]
    /\ UNCHANGED <<sh, m2m, now, tasks, threads, orch, call>>

\* get_downloadable_files raises for the second dataset of the day of the
\* scenes, in the first run
Outage ==
    /\ hist.run = 1
    /\ orch.pc = "discover"
    /\ orch.days[orch.d] = world.sceneDay
    /\ orch.ds = 2
    /\ Discover("scene-search")

InitRerun ==
    \E w \in Worlds, last0 \in InitialCheckpoints :
        /\ w.n <= FewScenes
        /\ InitWith(w, last0)

NextRerun ==
    \/ RunBegin("")
    \/ Discover("")
    \/ Outage
    \/ StartThread
    \/ \E i \in 1..Len(threads) : ThreadRun(i)
    \/ JoinAll(FALSE, "")
    \/ Rerun
    \/ Publish

SpecRerun == InitRerun /\ [][NextRerun]_vars

(***************************************************************************)
(* A driver of S3Connector: uploads, checks, downloads and deletions of a  *)
(* few keys, each request failing or not.                                  *)
(***************************************************************************)
DriverKeys == {Key("landsat_ot_c2_l1", k, ".tar") : k \in 1..MaxKeys}
Sizes == 0..MaxSize
\* values of expected_length: None, a Content-Length header, an int
Lengths == {PyNone} \cup {PyStr(n) : n \in Sizes} \cup {PyInt(n) : n \in Sizes}
S3Faults == {"", "403", "conn"}

Found(st, key) == IF key \in DOMAIN st THEN st[key] ELSE NoObject
S3Call(op, key, arg, r) ==
    Call(op, key, arg, Found(sh.store, key), key \in DOMAIN sh.store, 0, "",
         PyNone, TRUE, r.ret, r.exc, {})

S3Upload(key, size, err) ==
    LET r == upload_file(sh.store, key, Object(size, "raw", key.stem, 1), err)
    IN  /\ sh' = [sh EXCEPT !.store = r.store]
        /\ call' = S3Call("upload", key, PyInt(size), r)
        /\ UNCHANGED <<m2m, now, tasks, threads, orch, world, hist>>

S3Check(key, expected_length, headErr, delErr) ==
    LET r == check_if_key_exists(sh.store, key, expected_length, headErr, delErr)
    IN  /\ sh' = [sh EXCEPT !.store = r.store]
        /\ call' = S3Call("check", key, expected_length, r)
        /\ UNCHANGED <<m2m, now, tasks, threads, orch, world, hist>>

S3Download(key, err) ==
    LET r == download_file(sh.store, key, err)
    IN  /\ sh' = [sh EXCEPT !.store = r.store]
        /\ call' = S3Call("download", key, PyNone, r)
        /\ UNCHANGED <<m2m, now, tasks, threads, orch, world, hist>>

S3Delete(key, err) ==
    LET r == delete_key(sh.store, key, err)
    IN  /\ sh' = [sh EXCEPT !.store = r.store]
        /\ call' = S3Call("delete", key, PyNone, r)
        /\ UNCHANGED <<m2m, now, tasks, threads, orch, world, hist>>

InitS3 == InitWith(World(0, {}, "none"), StartDay - 1)

NextS3 ==
    \/ \E key \in DriverKeys, size \in Sizes, err \in S3Faults : S3Upload(key, size, err)
    \/ \E key \in DriverKeys, len \in Lengths, headErr \in S3Faults, delErr \in S3Faults :
           S3Check(key, len, headErr, delErr)
    \/ \E key \in DriverKeys, err \in S3Faults : S3Download(key, err)
    \/ \E key \in DriverKeys, err \in S3Faults : S3Delete(key, err)

SpecS3 == InitS3 /\ [][NextS3]_vars

(***************************************************************************)
(* A driver of the two API clients: the clock ticks by the hour, the       *)
(* driver registers items and calls the M2M API.                           *)
(***************************************************************************)
\* hours the clock of the driver runs
MaxHours == 25
\* the items the driver registers
DriverItems == {1}
DriverDatasets == {"landsat_ot_c2_l1", "landsat_mss_c2_l1"}
\* the network of a call: without faults, or the login is refused
LoginRefused == Net(0, 200, 0, 401, TRUE, "ok", "top")
NetCases == {Benign, LoginRefused}

Tick ==
    /\ now < StartDay * 24 + 9 + MaxHours
    /\ now' = now + 1
    /\ call' = NoCall
    /\ UNCHANGED <<sh, m2m, tasks, threads, orch, world, hist>>

StacRegistered(item, dataset, net, r) ==
    LET via == IF \E q \in r.reqs : q.endpoint = "items_put" THEN "put" ELSE "post"
    IN  /\ sh' = [sh EXCEPT !.stac = r.cl, !.cat = r.cat]
        /\ call' = Call("register", last_downloaded_day_key, PyNone, NoObject,
                        \E it \in sh.cat : it.collection = dataset /\ it.item = item,
                        item, dataset, sh.stac.token, net = Benign, r.ret, r.exc, r.reqs)
        /\ hist' = [hist EXCEPT !.returned =
                        IF r.exc = NoExc
                        THEN @ \cup {[dataset |-> dataset, item |-> item,
                                      ret |-> r.ret, via |-> via]}
                        ELSE @]
        /\ UNCHANGED <<m2m, now, tasks, threads, orch, world>>
StacRegister(item, dataset, net) ==
    StacRegistered(item, dataset, net,
                   register_stac_item(sh.stac, sh.cat, now, item, dataset, net))

M2MCalled(endpoint, net, r) ==
    /\ m2m' = r.cl
    /\ call' = Call(endpoint, last_downloaded_day_key, PyNone, NoObject, FALSE,
                    0, "", m2m.token, net = Benign, PyNone, r.exc, r.reqs)
    /\ UNCHANGED <<sh, now, tasks, threads, orch, world, hist>>
M2MCall(endpoint, net) ==
    M2MCalled(endpoint, net, M2M_send_request(m2m, now, endpoint, net))

InitClients == InitWith(World(0, {}, "none"), StartDay - 1)

NextClients ==
    \/ Tick
    \/ \E item \in DriverItems, dataset \in DriverDatasets, net \in NetCases :
           StacRegister(item, dataset, net)
    \/ \E net \in NetCases : M2MCall("scene-list-remove", net)

SpecClients == InitClients /\ [][NextClients]_vars

(***************************************************************************)
(* Two runs a day apart over a day with MaxThreads scenes, the threads of  *)
(* a triple interleaved step by step.  The objects run lets go are         *)
(* destroyed at some later time.                                           *)
(***************************************************************************)
MaxThreads == 2

ThreadStepped(i, r) ==
    /\ tasks' = [tasks EXCEPT ![i] = r.t]
    /\ sh' = r.sh
    /\ threads' = [threads EXCEPT ![i] = IF Terminal(r.t) THEN "dead" ELSE "alive"]
    /\ hist' = [hist EXCEPT !.finished = IF Terminal(r.t) THEN @ + 1 ELSE @,
                            !.failed_day =
                                IF @ = 0 /\ r.t.exception_occurred # NoExc
                                THEN orch.days[orch.d] ELSE @,
                            !.logins = IF tasks[i].pc = "auth" THEN @ + 1 ELSE @]
    /\ UNCHANGED <<m2m, now, orch, world, call>>
ThreadStep(i) ==
    /\ threads[i] = "alive"
    /\ ThreadStepped(i, thread_step(tasks[i], sh, now))

\* __del__ of the objects let go: their workdirs are cleaned up
Collect ==
    /\ hist.garbage > 0
    /\ hist' = [hist EXCEPT !.garbage = 0]
    /\ UNCHANGED <<sh, m2m, now, tasks, threads, orch, world, call>>

InitThreads ==
    \E last0 \in InitialCheckpoints : InitWith(World(MaxThreads, {}, "none"), last0)

NextThreads ==
    \/ RunBegin("")
    \/ Discover("")
    \/ StartThread
    \/ \E i \in 1..Len(threads) : ThreadStep(i)
    \/ JoinAll(FALSE, "")
    \/ Rerun
    \/ Collect

SpecThreads == InitThreads /\ [][NextThreads]_vars

(***************************************************************************)
(* _send_request of both clients, logged in, over what the network does to *)
(* the attempts of its _retry_request: up to MaxTimeouts attempts in a row *)
(* time out, then one is answered with some status or raises a             *)
(* ConnectionError.                                                        *)
(***************************************************************************)
MaxTimeouts == 6
Statuses == {200, 404, 409, 500}
RetryNets ==
    {[Net(timeouts, status, 0, 200, TRUE, "ok", "top") EXCEPT !.error = error] :
        timeouts \in 0..MaxTimeouts, status \in Statuses, error \in BOOLEAN}

SendCall(client, net, r) ==
    [op |-> "send", client |-> client, net |-> net, exc |-> r.exc, reqs |-> r.reqs]

StacSent(net, r) ==
    /\ sh' = [sh EXCEPT !.stac = r.cl, !.log.reqs = @ \cup r.reqs]
    /\ call' = SendCall("stac", net, r)
    /\ UNCHANGED <<m2m, now, tasks, threads, orch, world, hist>>
StacSend(net) ==
    StacSent(net, STAC_send_request(sh.stac, now, Endpoint("items_put", 1), net))

M2MSent(net, r) ==
    /\ m2m' = r.cl
    /\ sh' = [sh EXCEPT !.log.reqs = @ \cup r.reqs]
    /\ call' = SendCall("m2m", net, r)
    /\ UNCHANGED <<now, tasks, threads, orch, world, hist>>
M2MSend(net) ==
    M2MSent(net, M2M_send_request(m2m, now, "scene-search", net))

\* the answers to the registration POST, an embedded 409 in both forms
PostNets ==
    {Net(0, 200, 0, 200, TRUE, post, form) :
        post \in {"ok", "conn", "err_top", "err_arr"}, form \in {"top", "arr"}}

\* a call of register_stac_item, logged in, under the same networks or one
\* of PostNets
PostCall(net, r) ==
    [op |-> "post", client |-> "stac", net |-> net, exc |-> r.exc, reqs |-> r.reqs,
     ret |-> r.ret, created |-> r.cat # sh.cat,
     conflict |-> \E it \in sh.cat : it.collection = demanded_datasets[1] /\ it.item = 1]
StacPosted(net, r) ==
    /\ sh' = [sh EXCEPT !.stac = r.cl, !.cat = r.cat]
    /\ call' = PostCall(net, r)
    /\ UNCHANGED <<m2m, now, tasks, threads, orch, world, hist>>
StacPost(net) ==
    StacPosted(net, register_stac_item(sh.stac, sh.cat, now, 1, demanded_datasets[1], net))

InitRetry == InitWith(World(0, {}, "none"), StartDay - 1)

NextRetry ==
    \/ \E net \in RetryNets : StacSend(net)
    \/ \E net \in RetryNets : M2MSend(net)
    \/ \E net \in RetryNets \cup PostNets : StacPost(net)

SpecRetry == InitRetry /\ [][NextRetry]_vars

(***************************************************************************)
(* M2MAPIConnector.get_downloadable_files after the scene search: the      *)
(* download options of the scene list, the download requests that poll     *)
(* them, the list of files, and the tasks run builds from it.              *)
(***************************************************************************)
\* one element of the data of the download-options response
Option(entityId, id, downloadSystem, available) ==
    [available |-> available, downloadSystem |-> downloadSystem,
     entityId |-> entityId, id |-> id]

\* the filter of _download_options
accepts(download_option) ==
    \/ download_option.downloadSystem = "dds" /\ download_option.available
    \/ download_option.downloadSystem = "ls_zip" /\ download_option.available

\* _download_options: data is the data of the response
download_options(data) == SelectSeq(data, accepts)

\* an entry of available_urls / preparing_urls
UrlDict(download_option, url) ==
    [entityId |-> download_option.entityId, productId |-> download_option.id, url |-> url]

\* what the peer does with the download requests of one option: the URL
\* it resolves the option to (0: it lists the option neither as available
\* nor as preparing) and the number of polling rounds in which it reports
\* the URL as preparing before it reports it as available
Staging(url, prep) == [url |-> url, prep |-> prep, again |-> url]
\* the same of a peer that answers with the URL again in the passes after
\* the one in which it has first reported the option as available
Restaging(url, prep, again) == [url |-> url, prep |-> prep, again |-> again]
\* the URL the peer reports for an option whose staging is s in a pass
offered(s, round) == IF round > s.prep + 1 THEN s.again ELSE s.url

\* the availableDownloads ("available") or preparingDownloads
\* ("preparing") of the responses of one round, in the order of the
\* options from the i-th on
RECURSIVE round_urls(_, _, _, _, _)
round_urls(options, peer, round, kind, i) ==
    IF i > Len(options)
    THEN <<>>
    ELSE LET listed == /\ peer[i].url # 0
                       /\ IF kind = "preparing" THEN round <= peer[i].prep
                          ELSE round > peer[i].prep
         IN  (IF listed THEN <<UrlDict(options[i], offered(peer[i], round))>> ELSE <<>>)
             \o round_urls(options, peer, round, kind, i + 1)

\* the while loop of _download_request from its round-th pass on: the
\* entries appended to available_urls, the number of passes and the
\* preparing_urls of the last pass
RECURSIVE poll(_, _, _, _)
poll(options, peer, round, available_urls) ==
    LET available == available_urls \o round_urls(options, peer, round, "available", 1)
        preparing_urls == round_urls(options, peer, round, "preparing", 1)
    IN  IF preparing_urls = <<>>
        THEN \* break
             [available_urls |-> available, rounds |-> round, preparing |-> preparing_urls]
        ELSE \* time.sleep(5)
             poll(options, peer, round + 1, available)

\* the keys of the dict of _unique_urls, in the order of their insertion
RECURSIVE url_keys(_)
url_keys(available_urls) ==
    IF available_urls = <<>>
    THEN <<>>
    ELSE LET n == Len(available_urls)
             before == url_keys(SubSeq(available_urls, 1, n - 1))
         IN  IF \E k \in 1..Len(before) : before[k] = available_urls[n].url
             THEN before
             ELSE Append(before, available_urls[n].url)

\* _unique_urls: a key keeps the place of its first entry and the value of
\* its last
unique_urls(available_urls) ==
    LET keys == url_keys(available_urls)
    IN  [k \in 1..Len(keys) |->
            available_urls[CHOOSE i \in 1..Len(available_urls) :
                               /\ available_urls[i].url = keys[k]
                               /\ \A j \in (i + 1)..Len(available_urls) :
                                      available_urls[j].url # keys[k]]]

FewerURLs == Exc("M2MAPIDownloadRequestReturnedFewerURLs", "")

\* the test of _download_request after _unique_urls
fewer_urls(urls_count, entity_ids_count) == urls_count < entity_ids_count

\* _download_request: what it returns or raises, with the passes of its
\* loop
download_request(options, peer) ==
    LET p == poll(options, peer, 1, <<>>)
        available_urls == unique_urls(p.available_urls)
    IN  [ret |-> IF fewer_urls(Len(available_urls), Len(options))
                 THEN <<>> ELSE available_urls,
         exc |-> IF fewer_urls(Len(available_urls), Len(options))
                 THEN FewerURLs ELSE NoExc,
         rounds |-> p.rounds, preparing |-> p.preparing]

\* _get_list_of_files and the geojson update of get_downloadable_files:
\* the display id of an entry is that of its entity in the scene search
get_list_of_files(downloadable_urls, entity_display_ids, dataset) ==
    [k \in 1..Len(downloadable_urls) |->
        [dataset |-> dataset,
         displayId |-> entity_display_ids[downloadable_urls[k].entityId],
         entityId |-> downloadable_urls[k].entityId,
         productId |-> downloadable_urls[k].productId,
         url |-> downloadable_urls[k].url]]

\* the DownloadedFile objects run builds from the attributes of the files
downloaded_files(files) ==
    [k \in 1..Len(files) |->
        DownloadedFile(files[k].displayId, files[k].dataset, GoodSource,
                       catalogue_only_default, force_redownload_file_default)]

(***************************************************************************)
(* The driver of the above: a scene search that found the scenes of        *)
(* DriverScenes, every list of up to MaxOptions different download options *)
(* of them, every staging of the options the filter accepts.               *)
(***************************************************************************)
MaxOptions == 2
\* entity id :> display id of the scenes found
DriverScenes == (1 :> 11) @@ (2 :> 12)
\* the delivery systems of the options and the product id of each
Systems == {"dds", "ls_zip", "folder"}
ProductId(downloadSystem) ==
    IF downloadSystem = "dds" THEN 1 ELSE IF downloadSystem = "ls_zip" THEN 2 ELSE 3
DriverOptions ==
    {Option(e, ProductId(s), s, a) : e \in DOMAIN DriverScenes, s \in Systems, a \in BOOLEAN}
\* lists of different options
OptionLists ==
    UNION {{data \in [1..n -> DriverOptions] :
               \A i, j \in 1..n : i # j =>
                   <<data[i].entityId, data[i].id>> # <<data[j].entityId, data[j].id>>} :
           n \in 0..MaxOptions}
\* the URLs the peer resolves options to, 0 for none, and the passes it
\* stages one; a peer may answer a repeated request with a fresh URL
FreshUrl == 3
Stagings ==
    {Staging(url, prep) : url \in 0..2, prep \in 0..1}
        \cup {Restaging(url, prep, FreshUrl) : url \in 1..2, prep \in 0..1}

ResolveCall(data, options, peer, r) ==
    [op |-> "resolve", data |-> data, options |-> options, peer |-> peer,
     ret |-> r.ret, exc |-> r.exc, rounds |-> r.rounds, preparing |-> r.preparing]

Resolved(data, options, peer, r, files) ==
    /\ call' = ResolveCall(data, options, peer, r)
    /\ tasks' = IF r.exc = NoExc THEN downloaded_files(files) ELSE <<>>
    /\ threads' = IF r.exc = NoExc THEN [k \in 1..Len(files) |-> "new"] ELSE <<>>
    /\ UNCHANGED <<sh, m2m, now, orch, world, hist>>
Requested(data, options, peer, r) ==
    Resolved(data, options, peer, r,
             get_list_of_files(r.ret, DriverScenes, demanded_datasets[1]))
Resolve(data, options, peer) ==
    Requested(data, options, peer, download_request(options, peer))

InitOptions == InitWith(World(0, {}, "none"), StartDay - 1)

\* run is in its loop over the triples and no thread of a triple is alive
NextOptions ==
    /\ \A k \in 1..Len(threads) : threads[k] # "alive"
    /\ \E data \in OptionLists :
           \E peer \in [1..Len(download_options(data)) -> Stagings] :
               Resolve(data, download_options(data), peer)

SpecOptions == InitOptions /\ [][NextOptions]_vars

(***************************************************************************)
(* One task, call by call: process of a scene whose download URL, archive  *)
(* and bucket vary, every call meeting an environment that may fail it.    *)
(***************************************************************************)
\* what the download URL may serve: a good archive, one without band
\* files, a response that names no file, an archive without the MTL file,
\* one from which no item can be built, one whose metadata the parser
\* rejects and that holds a pre-generated item, one under another name
\* than <display id>.tar
TaskSources ==
    {GoodSource, NoBandsSource,
     Source("", 2, TRUE, TRUE, TRUE, {"B2", "B3", "B4"}, "landsat-8"),
     Source(".tar", 2, FALSE, TRUE, TRUE, {"B2", "B3", "B4"}, "landsat-8"),
     Source(".tar", 2, TRUE, FALSE, FALSE, {"B2", "B3", "B4"}, "landsat-8"),
     Source(".tar", 2, TRUE, TRUE, FALSE, {"B2", "B3", "B4"}, "landsat-8"),
     Source("_T1.tar", 2, TRUE, TRUE, TRUE, {"B2", "B3", "B4"}, "landsat-8")}
\* the datasets of the task: two demanded ones and one the code does not know
TaskDatasets == {"landsat_ot_c2_l1", "landsat_mss_c2_l1", "landsat_ard"}
\* what the bucket holds of the scene before the task: nothing, the whole
\* archive, or an archive of another size
CheckpointOnly ==
    BucketPut(EmptyBucket, last_downloaded_day_key, DayObject(StartDay - 1))
TaskBuckets(dataset, src) ==
    {CheckpointOnly,
     BucketPut(CheckpointOnly, Key(dataset, 1, src.filename),
               Object(src.length, "raw", 1, 1)),
     BucketPut(CheckpointOnly, Key(dataset, 1, src.filename),
               Object(src.length - 1, "raw", 1, 0))}
\* the registration POST meets a connection error
PostRefused == Net(0, 200, 0, 200, TRUE, "conn", "top")
\* the environments of a call
Envs ==
    {Env(get, short, err, left, net) :
        get \in {"ok", "fail"}, short \in BOOLEAN, err \in S3Faults,
        left \in {"empty", "readable"}, net \in NetCases \cup {PostRefused}}

InitTaskWith(catalogue_only) ==
    \E dataset \in TaskDatasets, src \in TaskSources :
        \E st \in TaskBuckets(dataset, src) :
            /\ now = StartDay * 24 + 9
            /\ sh = Shared(st, EmptyCatalog,
                           StacClient(PyInt(now + StacTokenHours), now + StacTokenHours),
                           EmptyLog)
            /\ m2m = M2MClient(PyInt(now + M2MTokenHours), now + M2MTokenHours)
            /\ tasks = <<DownloadedFile(1, dataset, src, catalogue_only,
                                        force_redownload_file_default)>>
            /\ threads = <<"alive">>
            /\ orch = IdleOrch
            /\ world = World(1, {}, "none")
            /\ hist = NoHist
            /\ call = NoCall

InitTask == InitTaskWith(catalogue_only_default)

\* the next call of process
TaskStepped(r) ==
    /\ tasks' = <<r.t>>
    /\ sh' = r.sh
    /\ threads' = <<IF Terminal(r.t) THEN "dead" ELSE "alive">>
    \* except DownloadedFileDownloadedFileHasDifferentSize: continue
    \* dropped: a call has deleted the archive of the scene from the bucket
    /\ hist' = [hist EXCEPT !.redo = IF tasks[1].pc = "download" /\ r.t.pc = "download"
                                     THEN ~@ ELSE @,
                             !.dropped =
                                 LET key == get_s3_bucket_key_of_file(tasks[1],
                                                                      tasks[1].src.filename)
                                 IN  @ \/ (key \in DOMAIN sh.store /\ key \notin DOMAIN r.sh.store)]
TaskStep(e) ==
    /\ Len(tasks) = 1
    /\ ~Terminal(tasks[1])
    /\ TaskStepped(Step(tasks[1], sh, now, e))
    /\ UNCHANGED <<m2m, now, orch, world, call>>

NextTask == \E e \in Envs : TaskStep(e)

SpecTask == InitTask /\ [][NextTask]_vars

\* the same task under landsat_config.catalogue_only = True
InitCatalogue == InitTaskWith(TRUE)
SpecCatalogue == InitCatalogue /\ [][NextTask]_vars

(***************************************************************************)
(* One task whose download URL serves fewer bytes than it announces at     *)
(* every attempt, nothing else failing.  The thread of the task runs       *)
(* process as long as it has a call to make: weak fairness of its steps.   *)
(***************************************************************************)
ShortEnvs ==
    {Env("ok", TRUE, "", left, net) : left \in {"empty", "readable"}, net \in NetCases}

NextShort == \E e \in ShortEnvs : TaskStep(e)

SpecShort == InitTask /\ [][NextShort]_vars /\ WF_vars(NextShort)

(***************************************************************************)
(* The scene of one task over several runs: when process has ended, a      *)
(* later run lists the scene again and builds a new DownloadedFile for it, *)
(* the download URL announcing the Content-Length it did or another one.   *)
(***************************************************************************)
\* what the download URL of src may announce in a later run
Redeclared(src) == {[src EXCEPT !.length = n] : n \in {src.length, src.length + 1}}

Again(src) ==
    /\ Len(tasks) = 1
    /\ Terminal(tasks[1])
    /\ hist.run < MaxRuns
    /\ tasks' = <<DownloadedFile(tasks[1].display_id, tasks[1].dataset, src,
                                 catalogue_only_default, force_redownload_file_default)>>
    /\ threads' = <<"alive">>
    /\ sh' = [sh EXCEPT !.log = EmptyLog]
    /\ hist' = [NoHist EXCEPT !.run = hist.run + 1]
    /\ UNCHANGED <<m2m, now, orch, world, call>>

NextAgain ==
    \/ \E e \in Envs : TaskStep(e)
    \/ \E src \in Redeclared(tasks[1].src) : Again(src)

SpecAgain == InitTask /\ [][NextAgain]_vars

(***************************************************************************)
(* _get_downloadable_days as a function of the current date and of the     *)
(* checkpoint it reads: the checkpoint lies up to MaxBack days before the  *)
(* current date (beyond the four weeks) or up to MaxAhead days after it.   *)
(***************************************************************************)
MaxBack == 31
MaxAhead == 2
MaxDates == 3

DaysCall(utc_today, last_downloaded_day, days) ==
    [op |-> "days", today |-> utc_today, last |-> last_downloaded_day, days |-> days]

GetDownloadableDays(utc_today, last_downloaded_day) ==
    /\ call' = DaysCall(utc_today, last_downloaded_day,
                        get_downloadable_days(utc_today, last_downloaded_day))
    /\ UNCHANGED <<sh, m2m, now, tasks, threads, orch, world, hist>>

\* _create_array_of_downloadable_days called by itself, date_from <= date_to
ArrayCall(date_from, date_to, days) ==
    [op |-> "array", today |-> date_to, last |-> date_from, days |-> days]

CreateArray(date_from, date_to) ==
    /\ call' = ArrayCall(date_from, date_to,
                         create_array_of_downloadable_days(date_from, date_to))
    /\ UNCHANGED <<sh, m2m, now, tasks, threads, orch, world, hist>>

InitDays == InitWith(World(0, {}, "none"), StartDay - 1)

NextDays ==
    \/ \E utc_today \in StartDay..(StartDay + MaxDates - 1) :
           \E last_downloaded_day \in (utc_today - MaxBack)..(utc_today + MaxAhead) :
               GetDownloadableDays(utc_today, last_downloaded_day)
    \/ \E date_to \in StartDay..(StartDay + MaxDates - 1) :
           \E date_from \in (date_to - MaxBack)..date_to :
               CreateArray(date_from, date_to)

SpecDays == InitDays /\ [][NextDays]_vars

(***************************************************************************)
(* Properties of run.                                                      *)
(***************************************************************************)
\* the group of started threads to which the thread of task i belongs
Group(i) == (i - 1) \div max_started_threads
\* the threads started and not yet terminated
Alive == {i \in 1..Len(threads) : threads[i] = "alive"}
\* the tasks of the current triple that recorded an exception
FailedTasks == {i \in 1..Len(tasks) : tasks[i].exception_occurred # NoExc}
\* the step writes the checkpoint
CheckpointWritten ==
    \/ hist'.writes # hist.writes
    \/ sh'.store[last_downloaded_day_key] # sh.store[last_downloaded_day_key]
\* process of the scene of task i when no other task runs beside it
Alone(i) ==
    process(DownloadedFile(tasks[i].display_id, tasks[i].dataset, tasks[i].src,
                           catalogue_only_default, force_redownload_file_default),
            Shared(EmptyBucket, EmptyCatalog, sh.stac, EmptyLog), now).t

(* C1: run writes the checkpoint for a day d only in a step before which   *)
(* every task created for d (over all its triples) has terminated and no   *)
(* task has recorded an exception; once a task of day d has recorded an    *)
(* exception the run writes the checkpoint neither for d nor for a later   *)
(* day.                                                                    *)
C1_CheckpointOnlyAfterCleanDay ==
    /\ [][CheckpointWritten =>
            /\ hist'.writes = hist.writes \cup {orch.days[orch.d]}
            /\ sh'.store[last_downloaded_day_key] = DayObject(orch.days[orch.d])
            /\ hist.created = hist.finished
            /\ \A i \in 1..Len(threads) : threads[i] = "dead"
            /\ hist.joined = Len(demanded_datasets) - 1
            /\ hist.failed_day = 0]_vars
    /\ [](hist.failed_day # 0 =>
            /\ \A d \in hist.writes : d < hist.failed_day
            /\ sh.store[last_downloaded_day_key].val < hist.failed_day)

\* the run returned after the day with the most scenes, all tasks clean,
\* and the checkpoint stands at today
C1_Witness ==
    /\ orch.pc = "returned"
    /\ world.n = MaxScenes
    /\ world.sceneDay \in hist.writes
    /\ sh.store[last_downloaded_day_key] = DayObject(today(now))

(* C2: at every instant at most 10 threads of a triple are started and not *)
(* terminated, and a thread is started only when every thread of every     *)
(* earlier group of 10 has terminated.                                     *)
C2_AtMostTenAlive ==
    /\ Cardinality(Alive) <= 10
    /\ \A k \in 1..Len(threads) :
           threads[k] # "new" =>
               \A j \in 1..Len(threads) : Group(j) < Group(k) => threads[j] = "dead"

\* the second group of a triple with the most scenes is alive as a whole
C2_Witness ==
    /\ Len(threads) = MaxScenes
    /\ Cardinality(Alive) = 10
    /\ threads[max_started_threads + 1] = "alive"

C10_SiblingsUnaffected ==
    (\E j \in FailedTasks : tasks[j].exception_occurred.type = "ValueError") =>
        /\ \A i \in 1..Len(tasks) :
               /\ threads[i] = "dead" => tasks[i] = Alone(i) /\ Terminal(tasks[i])
               /\ threads[i] # "dead" => tasks[i].pc = "download"
        /\ orch.pc \in {"start", "raised"}
        /\ orch.pc = "raised" => \A i \in 1..Len(threads) : threads[i] = "dead"
        /\ orch.days[orch.d] \notin hist.writes
        /\ sh.store[last_downloaded_day_key].val < orch.days[orch.d]

\* the first of 11 tasks failed for want of band files, the ten others are
\* done, the 11th having been started after the failure
C10_Witness ==
    /\ orch.pc = "raised"
    /\ Len(tasks) = max_started_threads + 1
    /\ FailedTasks = {1}
    /\ tasks[1].exception_occurred = Exc("ValueError", "Thumbnail suitable data not found")
    /\ \A i \in 2..Len(tasks) : tasks[i].pc = "done" /\ tasks[i].feature_id # PyNone

(***************************************************************************)
(* Properties of the API clients.                                          *)
(***************************************************************************)
(* C3, as stated: no request that carries the token of a client is sent    *)
(* at a time now >= the expiry the client has stored, and a call made      *)
(* over a network without faults by a client that holds a token raises     *)
(* nothing.                                                                *)
C3_NoBearerRequestAfterExpiry ==
    /\ \A q \in call.reqs : q.bearer => q.at < q.valid_until
    /\ (call.benign /\ call.token # PyNone) => call.exc = NoExc

\* the registration POST goes out a full hour after the expiry of the token
\* it carries, and the call returns a feature id
C3_Witness ==
    /\ call.op = "register"
    /\ call.exc = NoExc
    /\ \E q \in call.reqs :
           q.endpoint = "items_post" /\ q.bearer /\ q.at > q.valid_until

C5_CheckIfKeyExists ==
    /\ [][(call'.op = "check" /\ call'.exc = NoExc) =>
            LET k == call'.key
                S == call'.arg
                had == k \in DOMAIN sh.store
            IN  /\ (S # PyNone /\ had /\ S.v # sh.store[k].size) =>
                       (call'.ret = PyFalse /\ k \notin DOMAIN sh'.store)
                /\ (S # PyNone /\ call'.ret = PyTrue) =>
                       (had /\ sh.store[k].size = S.v /\ sh'.store = sh.store)
                /\ (S # PyNone /\ S.t = "str" /\ had /\ sh.store[k].size = S.v) =>
                       call'.ret = PyTrue
                /\ S = PyNone =>
                       /\ call'.ret = (IF had THEN PyTrue ELSE PyFalse)
                       /\ sh'.store = sh.store
                /\ call'.ret \in {PyTrue, PyFalse}
                /\ \A j \in DOMAIN sh.store \ {k} :
                       j \in DOMAIN sh'.store /\ sh'.store[j] = sh.store[j]]_vars
    /\ [][\A k \in DOMAIN sh'.store \ DOMAIN sh.store :
            call'.op = "upload" /\ call'.key = k /\ call'.exc = NoExc]_vars

\* a check with another size than the stored one returned False and the
\* key is gone
C5_Witness ==
    /\ call.op = "check" /\ call.exc = NoExc
    /\ call.existed /\ call.arg # PyNone /\ call.arg.v # call.pre.size
    /\ call.ret = PyFalse
    /\ call.key \notin DOMAIN sh.store

(***************************************************************************)
(* Properties of process.                                                  *)
(***************************************************************************)
\* the exceptions a call of process raised, but for the two the loop and
\* the except clause of process answer with a download: the size mismatch
\* and the 404 of the bucket
Unrecovered(t) == t.raised \ {DifferentSize, ClientError("404")}

(* C8, as stated: when process has ended, every exception raised by one    *)
(* of its calls (but for the size mismatch and the 404, which it answers   *)
(* by downloading again) is the one stored in exception_occurred, and      *)
(* exception_occurred is None exactly when every call completed.           *)
C8_ErrorsAreData ==
    \A i \in 1..Len(tasks) :
        Terminal(tasks[i]) =>
            /\ \A x \in Unrecovered(tasks[i]) : x = tasks[i].exception_occurred
            /\ (tasks[i].exception_occurred = NoExc) <=>
                   (tasks[i].pc = "done" /\ Unrecovered(tasks[i]) = {})

\* process ended with exception_occurred None and its item registered,
\* after the download of the archive from the bucket had raised a 403
C8_Witness ==
    /\ Len(tasks) = 1
    /\ tasks[1].pc = "done"
    /\ tasks[1].exception_occurred = NoExc
    /\ ClientError("403") \in tasks[1].raised
    /\ tasks[1].feature_id # PyNone

(***************************************************************************)
(* Properties of repeated runs.                                            *)
(***************************************************************************)
\* the keys under which process stores what it derives from the archive
DerivedSuffixes == {"_MTL.xml", "_thumbnail.jpg", "_feature.json", "_featureId.json"}
DerivedKeys(t) == {get_s3_bucket_key_of_file(t, s) : s \in DerivedSuffixes}
RawKey(t) == get_s3_bucket_key_of_file(t, t.src.filename)
SceneKeys(t) == {RawKey(t)} \cup DerivedKeys(t)
MarkerKey(t) == get_s3_bucket_key_of_file(t, "_featureId.json")
\* the bucket st holds everything a complete process of the scene of t
\* stores, the archive with the size the source announces
Processed(st, t) ==
    /\ SceneKeys(t) \subseteq DOMAIN st
    /\ st[RawKey(t)].size = t.src.length
\* the bucket st holds nothing of the scene of t
Unknown(st, t) == SceneKeys(t) \cap DOMAIN st = {}
\* the tasks of the current triple whose thread has terminated, in a run
\* that began with their scene processed
Reprocessed ==
    {i \in 1..Len(tasks) :
        hist.run >= 2 /\ threads[i] = "dead" /\ Processed(hist.before, tasks[i])}

C7_Case ==
    /\ hist.run >= 2
    /\ world.n = 2
    /\ Processed(hist.before,
                 DownloadedFile(1, demanded_datasets[1], GoodSource,
                                catalogue_only_default, force_redownload_file_default))
    /\ Unknown(hist.before,
               DownloadedFile(2, demanded_datasets[1], GoodSource,
                              catalogue_only_default, force_redownload_file_default))
\* the threads of the triple of the two scenes have terminated
C7_TripleDone ==
    /\ orch.pc = "start"
    /\ orch.days[orch.d] = world.sceneDay
    /\ orch.ds = 1
    /\ Len(tasks) = 2
    /\ \A i \in 1..Len(threads) : threads[i] = "dead"
\* the run has gone on to a day after the day of the scenes
C7_DayDone ==
    \/ orch.pc = "returned"
    \/ orch.pc \in {"discover", "start"} /\ orch.days[orch.d] > world.sceneDay

MinDay(a, b) == IF a < b THEN a ELSE b

(* C16, as stated: the list of _get_downloadable_days holds no day earlier *)
(* than the current date minus four weeks.                                 *)
C16_NoDayBeforeWindow ==
    call.op = "days" =>
        \A i \in 1..Len(call.days) : call.days[i] >= call.today - weeks4

(* C16, amended: the list begins the day after the earlier of the          *)
(* checkpoint and the current date minus four weeks and runs day by day;   *)
(* so it holds every day of the last four weeks, and with a checkpoint     *)
(* older than four weeks it reaches back to the day after the checkpoint.  *)
C16_AtLeastFourWeeks ==
    call.op = "days" =>
        /\ Len(call.days) >= weeks4
        /\ call.days[1] = MinDay(call.last, call.today - weeks4) + 1
        /\ \A i \in 1..(Len(call.days) - 1) : call.days[i + 1] = call.days[i] + 1
        /\ \A d \in (call.today - weeks4 + 1)..call.today :
               \E i \in 1..Len(call.days) : call.days[i] = d
        /\ call.last < call.today - weeks4 =>
               /\ call.days[1] = call.last + 1
               /\ Len(call.days) = call.today - call.last

\* with a checkpoint three days older than four weeks the list begins two
\* days before the window
C16_Witness ==
    /\ call.op = "days"
    /\ call.last = call.today - weeks4 - 3
    /\ call.days[1] = call.today - weeks4 - 2

(* C17, as stated: the latest day of the list is the day before the        *)
(* current date.                                                           *)
C17_EndsYesterday ==
    call.op = "days" =>
        /\ call.days # <<>>
        /\ call.days[Len(call.days)] = call.today - 1
        /\ \A i \in 1..Len(call.days) : call.days[i] # call.today

(* C17, amended: the list is never empty, its latest day is the current    *)
(* date itself, and no day after the current date is in it, whatever the   *)
(* checkpoint (a checkpoint of the current date or later included).        *)
C17_EndsToday ==
    call.op = "days" =>
        /\ call.days # <<>>
        /\ call.days[Len(call.days)] = call.today
        /\ \A i \in 1..Len(call.days) : call.days[i] <= call.today

\* the checkpoint is yesterday, and the list still ends with today
C17_Witness ==
    /\ call.op = "days"
    /\ call.last = call.today - 1
    /\ call.days[Len(call.days)] = call.today
    /\ Len(call.days) = weeks4

(* C18: no step of a run lowers the checkpoint in the bucket; a step that  *)
(* writes it writes the current day of the run, a day the run has not      *)
(* written before and that is not earlier than the checkpoint read at the  *)
(* start of the run; the days the run goes through increase, and while    *)
(* the run is at a day it has written the checkpoint of earlier days only. *)
C18_CheckpointMonotone ==
    /\ [][sh'.store[last_downloaded_day_key].val
              >= sh.store[last_downloaded_day_key].val]_vars
    /\ [][hist'.writes # hist.writes =>
              /\ orch.pc = "start"
              /\ hist'.writes = hist.writes \cup {orch.days[orch.d]}
              /\ orch.days[orch.d] \notin hist.writes
              /\ orch.days[orch.d] >= orch.last_downloaded_day
              /\ \A d \in hist.writes : d < orch.days[orch.d]
              /\ sh'.store[last_downloaded_day_key] = DayObject(orch.days[orch.d])
              /\ orch'.pc = "returned" \/ orch'.d = orch.d + 1]_vars
    /\ [](\A i \in 1..(Len(orch.days) - 1) : orch.days[i] < orch.days[i + 1])
    /\ [](orch.pc \in {"discover", "start"} =>
              \A d \in hist.writes : d < orch.days[orch.d])

\* the run began with a checkpoint inside the four weeks, went through
\* earlier days without writing, and has written the later ones
C18_Witness ==
    /\ orch.pc = "returned"
    /\ orch.last_downloaded_day = StartDay - 3
    /\ orch.days[1] < orch.last_downloaded_day
    /\ hist.writes = (StartDay - 3)..StartDay
    /\ sh.store[last_downloaded_day_key] = DayObject(StartDay)

(***************************************************************************)
(* Properties of the download of a task.                                   *)
(***************************************************************************)
(* C19, as stated: a task whose every download attempt yields a size       *)
(* mismatch reaches a terminal state.                                      *)
C19_RedoLoopEnds == <>Terminal(tasks[1])

\* the task is back at the download after a size mismatch, and a further
\* mismatch leaves the task and the bucket as they are
C19_Witness ==
    /\ tasks[1].pc = "download"
    /\ DifferentSize \in tasks[1].raised
    /\ tasks[1].exception_occurred = NoExc
    /\ hist.redo
    /\ Step(tasks[1], sh, now, Env("ok", TRUE, "", "empty", Benign))
           = [t |-> tasks[1], sh |-> sh]

AttemptsSent == {q.attempt : q \in call.reqs}

C14_RemoveFollowsEveryGet ==
    orch.pc \in {"returned", "raised"} => ~hist.pending

\* run has raised the timeout of download-options: no thread was started,
\* scene_list_remove was not called and the list holds the scenes
C14_Witness ==
    /\ orch.pc = "raised"
    /\ orch.exc = Exc("M2MAPIRequestTimeout", "")
    /\ hist.pending
    /\ world.listed
    /\ hist.started = 0

(***************************************************************************)
(* Properties of the threads of a triple.                                  *)
(***************************************************************************)
(* C11, as stated: the workdir of a task that has ended, with or without   *)
(* an exception, no longer exists.                                         *)
C11_WorkdirGoneAtTaskEnd ==
    \A i \in 1..Len(tasks) : Terminal(tasks[i]) => ~tasks[i].workdir

\* the first task is done and its workdir exists while the thread of the
\* second task still runs and run holds both objects
C11_Witness ==
    /\ Len(tasks) = MaxThreads
    /\ tasks[1].pc = "done"
    /\ tasks[1].workdir
    /\ threads[2] = "alive"
    /\ orch.pc = "start"

(* C12, as stated: no two tasks are inside _combine_tifs at once.          *)
C12_OneTaskCombines ==
    \A i, j \in 1..Len(tasks) :
        tasks[i].pc = "combine" /\ tasks[j].pc = "combine" => i = j

\* both tasks of the triple are inside _combine_tifs and nobody holds the
\* lock
C12_Witness ==
    /\ Len(tasks) = MaxThreads
    /\ \A i \in 1..Len(tasks) : tasks[i].pc = "combine" /\ threads[i] = "alive"
    /\ orch.thread_lock = 0

(* C13, as stated: the tasks of a run send at most one auth request for an *)
(* expiry of the token, and no task builds a request from a token that is  *)
(* None.                                                                   *)
C13_SingleFlightRefresh ==
    /\ hist.logins <= 1
    /\ \A i \in 1..Len(tasks) : Exc("TypeError", "Bearer") \notin tasks[i].raised

\* in the second run both tasks found the token expired and each sent an
\* auth request
C13_Witness ==
    /\ hist.run = 2
    /\ hist.logins = 2
    /\ \A i \in 1..Len(tasks) : tasks[i].pc = "done"
    /\ Cardinality(sh.log.updated) = 2

(***************************************************************************)
(* Further properties of the days of a run and of _retry_request.          *)
(***************************************************************************)
(* C27, as stated: when every attempt of a request of the M2M client times *)
(* out, _retry_request with max_retries = 5 sends the request 6 times      *)
(* before it raises M2MAPIRequestTimeout.                                  *)
C27_SixRequestsBeforeTimeout ==
    call.op = "send" /\ call.client = "m2m" /\ call.net.timeouts > max_retries_default =>
        /\ call.exc.type = "M2MAPIRequestTimeout"
        /\ AttemptsSent = 1..(max_retries_default + 1)

\* six attempts would have timed out: five requests were sent and the
\* timeout was raised
C27_Witness ==
    /\ call.op = "send"
    /\ call.client = "m2m"
    /\ call.net.timeouts = max_retries_default + 1
    /\ call.exc.type = "M2MAPIRequestTimeout"
    /\ AttemptsSent = 1..max_retries_default

(* C28: whatever the checkpoint and the current date, every day after the  *)
(* current date minus four weeks up to the last day of the list is in the  *)
(* list of _get_downloadable_days, and these are at least the 28 days that *)
(* end with the current date.                                              *)
C28_LastFourWeeksCovered ==
    call.op = "days" =>
        /\ call.days # <<>>
        /\ \A d \in (call.today - weeks4 + 1)..call.days[Len(call.days)] :
               \E i \in 1..Len(call.days) : call.days[i] = d
        /\ Cardinality({call.days[i] : i \in 1..Len(call.days)}
                       \cap ((call.today - weeks4 + 1)..call.today)) = weeks4

\* the checkpoint is a week old, and the list still begins four weeks back
C28_Witness ==
    /\ call.op = "days"
    /\ call.last = call.today - 7
    /\ call.days[1] = call.today - weeks4 + 1
    /\ call.days[Len(call.days)] = call.today

(* C29, as stated: for date_from <= date_to the list of                    *)
(* _create_array_of_downloadable_days is the consecutive days from         *)
(* date_from to date_to, both included.                                    *)
C29_FromFirstToLast ==
    call.op = "array" =>
        /\ Len(call.days) = call.today - call.last + 1
        /\ call.days[1] = call.last
        /\ call.days[Len(call.days)] = call.today
        /\ \A i \in 1..(Len(call.days) - 1) : call.days[i + 1] = call.days[i] + 1

\* date_from is three days before date_to: the list is the three days after
\* date_from
C29_Witness ==
    /\ call.op = "array"
    /\ call.last = call.today - 3
    /\ call.days = <<call.last + 1, call.last + 2, call.today>>

(***************************************************************************)
(* Further properties of process.                                          *)
(***************************************************************************)
(* C21: process calls itself at most once.  It does so only from the       *)
(* download from the bucket, on a 404, with _force_redownload_file not yet *)
(* set, and sets it; once set the flag stays set, and a task with the flag *)
(* set is never at the download from the bucket again.                     *)
C21_ForcedRedownloadOnce ==
    /\ [](tasks[1].depth <= 1)
    /\ [](tasks[1].force => tasks[1].pc # "s3_fetch")
    /\ [][tasks[1].force => tasks'[1].force]_vars
    /\ [][tasks'[1].depth # tasks[1].depth =>
              /\ tasks[1].pc = "s3_fetch"
              /\ ~tasks[1].force
              /\ tasks'[1].force
              /\ tasks'[1].depth = tasks[1].depth + 1
              /\ tasks'[1].pc = "download"
              /\ \E x \in tasks'[1].raised : x.type = "ClientError" /\ x.info = "404"]_vars

\* the archive was in the bucket under another name than <display id>.tar:
\* the download from the bucket met a 404, the archive was streamed from
\* the source and the task is done
C21_Witness ==
    /\ tasks[1].depth = 1
    /\ tasks[1].force
    /\ tasks[1].pc = "done"
    /\ Scene(tasks[1]) \in sh.log.streamed
    /\ RawKey(tasks[1]) \in sh.log.uploads

(* C24: a step of a task uploads the featureId marker only after           *)
(* register_stac_item returned a feature id for the scene, an id under     *)
(* which the catalog holds the scene, and the marker carries it; with the  *)
(* marker uploaded the task is done, without an exception, and nothing     *)
(* is written to the bucket after it; a task that has failed has uploaded  *)
(* no marker.                                                              *)
C24_MarkerAfterRegistration ==
    /\ [][MarkerKey(tasks[1]) \in sh'.log.uploads \ sh.log.uploads =>
              /\ tasks[1].pc = "upload_marker"
              /\ tasks[1].feature_id # PyNone
              /\ Scene(tasks[1]) \in sh.log.posted
              /\ \E it \in sh.cat : /\ it.collection = tasks[1].dataset
                                     /\ it.item = tasks[1].display_id
                                     /\ PyInt(it.fid) = tasks[1].feature_id
              /\ sh'.store[MarkerKey(tasks[1])].kind = "marker"
              /\ PyInt(sh'.store[MarkerKey(tasks[1])].val) = tasks[1].feature_id
              /\ tasks'[1].pc = "done"]_vars
    /\ [](MarkerKey(tasks[1]) \in sh.log.uploads =>
              /\ tasks[1].pc = "done"
              /\ tasks[1].exception_occurred = NoExc)
    /\ [][MarkerKey(tasks[1]) \in sh.log.uploads => sh'.store = sh.store]_vars
    /\ [](tasks[1].pc = "failed" => MarkerKey(tasks[1]) \notin sh.log.uploads)

\* the task is done and the marker in the bucket carries the id of the
\* scene in the catalog
C24_Witness ==
    /\ tasks[1].pc = "done"
    /\ MarkerKey(tasks[1]) \in sh.log.uploads
    /\ sh.store[MarkerKey(tasks[1])].val = FeatureId(tasks[1].dataset, tasks[1].display_id)
    /\ \E it \in sh.cat : it.fid = sh.store[MarkerKey(tasks[1])].val

(* C30: under catalogue_only a step of a task neither deletes the raw      *)
(* archive of its scene from the bucket nor downloads the scene while the  *)
(* archive is in the bucket, whatever the size of the stored archive.      *)
C30_StoredArchiveUntouched ==
    [][tasks[1].catalogue_only /\ RawKey(tasks[1]) \in DOMAIN sh.store =>
           /\ RawKey(tasks[1]) \in DOMAIN sh'.store
           /\ sh'.log.streamed = sh.log.streamed]_vars

\* under catalogue_only the stored archive has been deleted and the scene
\* downloaded and stored again
C30_Witness ==
    /\ tasks[1].catalogue_only
    /\ hist.dropped
    /\ ~tasks[1].force
    /\ Scene(tasks[1]) \in sh.log.streamed
    /\ RawKey(tasks[1]) \in sh.log.uploads
    /\ tasks[1].pc = "done"

(* C25: every request the tasks of a run have sent (the download GET, the  *)
(* auth GET, the registration POST, the update PUT) was sent with a        *)
(* timeout.                                                                *)
C25_EveryRequestTimed == \A q \in sh.log.reqs : q.timeout # PyNone

\* the tasks have sent requests of the four kinds: the update PUT carries
\* the timeout, the download GET, the auth GET and the registration POST
\* carry none
C25_Witness ==
    /\ \A e \in {"download", "auth", "items_post", "items_put"} :
           \E q \in sh.log.reqs : q.endpoint = e
    /\ \A q \in sh.log.reqs :
           q.timeout = IF q.endpoint = "items_put" THEN PyInt(timeout_default) ELSE PyNone

\* the numbers of the attempts of the registration POST of the last call
PostsSent == {q.attempt : q \in {x \in call.reqs : x.endpoint = "items_post"}}

(* C26: the registration POST of register_stac_item is sent as the         *)
(* requests of _send_request are: again after each timeout, max_retries    *)
(* times at most, STACRequestTimeout when all of them timed out; and a     *)
(* response with another status than 200 raises STACRequestNotOK.          *)
C26_PostRetriesLikeSend ==
    call.op = "post" =>
        /\ call.net.timeouts >= max_retries_default =>
               /\ PostsSent = 1..max_retries_default
               /\ call.exc.type = "STACRequestTimeout"
        /\ call.net.timeouts < max_retries_default =>
               /\ PostsSent = 1..(call.net.timeouts + 1)
               /\ (~call.net.error) /\ call.net.status # 200 =>
                      call.exc.type = "STACRequestNotOK"

\* the peer answered no request within the timeout five times in a row
\* and then with the status 500: one POST was sent, nothing was raised and
\* the id parsed from the body was returned
C26_Witness ==
    /\ call.op = "post"
    /\ call.net.timeouts = max_retries_default
    /\ call.net.status = 500
    /\ PostsSent = {1}
    /\ call.reqs = {q \in call.reqs : q.endpoint = "items_post" /\ q.timeout = PyNone}
    /\ call.exc = NoExc
    /\ call.ret = PyInt(FeatureId(demanded_datasets[1], 1))

(***************************************************************************)
(* Properties of the download requests and of the tasks built from them.   *)
(***************************************************************************)
(* C22, as stated: _download_request returns only after a pass in which no *)
(* option was preparing; its result holds no URL twice; and it raises the  *)
(* fewer-URLs error exactly when an option was resolved to no URL, not     *)
(* when every option was resolved and two of them to the same URL.         *)
C22_FewerOnlyWhenUnresolved ==
    call.op = "resolve" =>
        /\ call.preparing = <<>>
        /\ \A i \in 1..Len(call.options) :
               call.peer[i].url # 0 => call.rounds > call.peer[i].prep
        /\ \A i, j \in 1..Len(call.ret) : i # j => call.ret[i].url # call.ret[j].url
        /\ call.exc \in {NoExc, FewerURLs}
        /\ call.exc = FewerURLs <=>
               \E i \in 1..Len(call.options) : call.peer[i].url = 0

\* two options, both resolved, to the same URL: the fewer-URLs error
C22_Witness ==
    /\ call.op = "resolve"
    /\ Len(call.options) = 2
    /\ call.peer[1].url # 0
    /\ call.peer[1].url = call.peer[2].url
    /\ call.peer[1].prep = 1
    /\ call.rounds = 2
    /\ call.exc = FewerURLs

(* C23, as stated: no two tasks run builds from one result of              *)
(* get_downloadable_files have the same dataset and display id.            *)
C23_OneTaskPerScene ==
    call.op = "resolve" =>
        \A i, j \in 1..Len(tasks) : i # j => Scene(tasks[i]) # Scene(tasks[j])

\* a scene with an available option of both delivery systems, each
\* resolved to a URL of its own: two tasks of the scene
C23_Witness ==
    /\ call.op = "resolve"
    /\ Len(call.options) = 2
    /\ call.options[1].entityId = call.options[2].entityId
    /\ {call.options[1].downloadSystem, call.options[2].downloadSystem} = {"dds", "ls_zip"}
    /\ call.exc = NoExc
    /\ Len(tasks) = 2
    /\ Scene(tasks[1]) = Scene(tasks[2])
    /\ tasks[1].display_id = DriverScenes[call.options[1].entityId]

(***************************************************************************)
(* Further properties of the clients and of process.                       *)
(***************************************************************************)
(* C31, as stated: a check_if_key_exists that returns, called with the     *)
(* size of the stored key as an int for expected_length, returns True and  *)
(* leaves the key in the bucket as it was.                                 *)
C31_IntLengthMatches ==
    (/\ call.op = "check" /\ call.exc = NoExc
     /\ call.existed /\ call.arg.t = "int" /\ call.arg.v = call.pre.size) =>
        /\ call.ret = PyTrue
        /\ call.key \in DOMAIN sh.store
        /\ sh.store[call.key] = call.pre

\* the check with the stored size as an int returned False and the key is
\* gone
C31_Witness ==
    /\ call.op = "check" /\ call.exc = NoExc
    /\ call.existed /\ call.arg = PyInt(call.pre.size)
    /\ call.ret = PyFalse
    /\ call.key \notin DOMAIN sh.store

(* C32: a register_stac_item that is answered with an embedded error whose *)
(* code is not 409, in the ErrorCode form or in the errors[] form, raises, *)
(* returns no feature id, sends no update and leaves the catalog as it     *)
(* was; a call sends an update only when the answer was a 409, that is     *)
(* when the item was in the catalog.                                       *)
C32_OnlyConflictUpdates ==
    call.op = "post" =>
        /\ call.net.post \in {"err_top", "err_arr"} =>
               /\ call.exc # NoExc
               /\ call.ret = PyNone
               /\ ~call.created
               /\ \A q \in call.reqs : q.endpoint = "items_post"
        /\ (\E q \in call.reqs : q.endpoint = "items_put") =>
               call.conflict /\ call.net.post = "ok"

\* the item was in the catalog and the answer was an error other than
\* 409 in the errors[] form: raised, one POST and nothing else
C32_Witness ==
    /\ call.op = "post"
    /\ call.net.post = "err_arr"
    /\ call.conflict
    /\ call.exc # NoExc
    /\ call.ret = PyNone
    /\ Cardinality(call.reqs) = 1

\* the call of _create_feature of the task alone: the step that leaves
\* "create_feature"
FeatureStep == tasks[1].pc = "create_feature" /\ tasks'[1].pc # "create_feature"

RaisedNow == tasks'[1].raised \ tasks[1].raised

(* C34, as stated: when the download of the stored archive raises a        *)
(* ClientError other than 404, the task ends at that call with that error  *)
(* as its exception and without forcing a download.                        *)
C34_StoreErrorAborts ==
    [][(/\ tasks[1].pc = "s3_fetch"
        /\ \E x \in RaisedNow : x.type = "ClientError" /\ x.info # "404") =>
           /\ tasks'[1].pc = "failed"
           /\ tasks'[1].exception_occurred \in RaisedNow
           /\ ~tasks'[1].force]_vars

\* the download of the stored archive raised 403 and the task went on: it
\* has registered the scene and ended without an exception
C34_Witness ==
    /\ ClientError("403") \in tasks[1].raised
    /\ ~tasks[1].force
    /\ Scene(tasks[1]) \notin sh.log.streamed
    /\ Scene(tasks[1]) \in sh.log.posted
    /\ tasks[1].pc = "done"
    /\ tasks[1].exception_occurred = NoExc

\* the bucket holds a raw archive of the scene of t
HasArchive(st, t) ==
    \E k \in DOMAIN st :
        k.dir = t.dataset /\ st[k].kind = "raw" /\ st[k].id = t.display_id

(* C35, as stated: over the runs of a scene, whenever the bucket holds the *)
(* featureId marker of the scene it holds the raw archive of the scene.    *)
C35_MarkerImpliesArchive ==
    MarkerKey(tasks[1]) \in DOMAIN sh.store => HasArchive(sh.store, tasks[1])

\* a later run found the archive with another size than the URL announces,
\* deleted it and failed at the download: the marker of the earlier run is
\* in the bucket, the archive is not
C35_Witness ==
    /\ hist.run >= 1
    /\ MarkerKey(tasks[1]) \in DOMAIN sh.store
    /\ ~HasArchive(sh.store, tasks[1])
    /\ hist.dropped
    /\ tasks[1].pc = "failed"

\* the storage keys the hrefs of the assets _append_assets_to_feature adds
\* point to: the keys of the metadata file, of the data file and of the
\* thumbnail of the task
asset_hrefs(t) ==
    [n \in {"mtl.xml", "data", "thumbnail"} |->
        get_s3_bucket_key_of_file(t, CASE n = "mtl.xml" -> "_MTL.xml"
                                       [] n = "data" -> t.data_suffix
                                       [] n = "thumbnail" -> "_thumbnail.jpg")]

\* the step is the call of register_stac_item and it sends the POST
SendsRegistration ==
    /\ tasks[1].pc = "register"
    /\ Scene(tasks[1]) \in sh'.log.posted

\* C36: whenever a task sends the registration of a scene to the catalog,
\* the bucket holds the raw archive, the metadata XML and the thumbnail of
\* the scene under the keys the hrefs of the data, mtl.xml and thumbnail
\* assets of the item point to
C36_AssetsStoredBeforePost ==
    [][SendsRegistration =>
          LET h == asset_hrefs(tasks[1])
          IN  /\ {"mtl.xml", "data", "thumbnail"} \subseteq tasks[1].assets
              /\ \A n \in DOMAIN h : h[n] \in DOMAIN sh.store
              /\ sh.store[h["data"]].kind = "raw"
              /\ sh.store[h["mtl.xml"]].kind = "xml"
              /\ sh.store[h["thumbnail"]].kind = "thumbnail"]_vars

\* a task has registered a scene it found in the bucket, without streaming
\* it, and the bucket holds what the three hrefs point to
C36_Witness ==
    /\ Len(tasks) = 1
    /\ tasks[1].pc = "dump"
    /\ Scene(tasks[1]) \in sh.log.posted
    /\ Scene(tasks[1]) \notin sh.log.streamed
    /\ \A n \in {"mtl.xml", "data", "thumbnail"} :
           asset_hrefs(tasks[1])[n] \in DOMAIN sh.store

\* the key _check_if_already_downloaded has asked the bucket for
checked_key(t) == get_s3_bucket_key_of_file(t, t.filename)
\* the key of _data_file_path, which _download_feature_from_s3 sets and
\* fetches
fetched_key(t) == get_s3_bucket_key_of_file(t, t.data_suffix)

\* C37: a task that found its archive in the bucket fetches it under the
\* key whose existence and size it has just confirmed, whatever file name
\* the download URL announces, and so does not download a scene again that
\* the bucket holds under that key
C37_FetchesCheckedKey ==
    [][(Len(tasks) = 1 /\ tasks[1].pc = "s3_fetch") =>
          /\ fetched_key(tasks'[1]) = checked_key(tasks[1])
          /\ (tasks'[1].force => checked_key(tasks[1]) \notin DOMAIN sh.store)]_vars

\* the bucket holds the archive under the key the task has checked, and the
\* task, having asked for another key, has been answered 404 and downloads
\* the scene again
C37_Witness ==
    /\ Len(tasks) = 1
    /\ tasks[1].pc = "download"
    /\ tasks[1].force
    /\ tasks[1].depth = 1
    /\ ClientError("404") \in tasks[1].raised
    /\ checked_key(tasks[1]) \in DOMAIN sh.store
    /\ sh.store[checked_key(tasks[1])].size = tasks[1].src.length
    /\ fetched_key(tasks[1]) # checked_key(tasks[1])
    /\ Scene(tasks[1]) \notin sh.log.streamed

\* the requests of the last call that ask for a token
LoginRequests == {q \in call.reqs : q.endpoint \in {"auth", "login", "login-token"}}

\* C38: between the calls of either client, an expiry the client has
\* stored that lies in the future comes with a token that is not None,
\* also after a login that failed; and so a call made by a client without
\* a token asks for one
C38_FutureExpiryHasToken ==
    /\ sh.stac.valid_until > now => sh.stac.token # PyNone
    /\ m2m.valid_until > now => m2m.token # PyNone
    /\ (call.op # "none" /\ call.token = PyNone) => LoginRequests # {}

\* after a login that was refused, the M2M client holds no token and an
\* expiry in the future, and its next call has sent its request with the
\* token None and without logging in
C38_Witness ==
    /\ call.op = "scene-list-remove"
    /\ call.token = PyNone
    /\ m2m.token = PyNone
    /\ m2m.valid_until > now
    /\ LoginRequests = {}
    /\ \E q \in call.reqs : q.client = "m2m" /\ q.bearer /\ q.token = PyNone

\* the same of the STAC client: it holds no token and an expiry in the
\* future, and its next call has raised the TypeError of 'Bearer ' + None
\* without a request
C38_StacWitness ==
    /\ call.op = "register"
    /\ call.token = PyNone
    /\ sh.stac.token = PyNone
    /\ sh.stac.valid_until > now
    /\ call.reqs = {}
    /\ call.exc = Exc("TypeError", "Bearer")

\* C39: whatever the peer answers and however many passes the loop makes,
\* the list _download_request returns holds at most one entry for a
\* download option (entityId, productId)
C39_OneEntryPerOption ==
    call.op = "resolve" =>
        \A i, j \in 1..Len(call.ret) :
            i # j => <<call.ret[i].entityId, call.ret[i].productId>>
                         # <<call.ret[j].entityId, call.ret[j].productId>>

\* two options, the first available at once and the second after a pass
\* of staging; in the second pass the peer answers the first option with
\* another URL than in the first, and the result holds both
C39_Witness ==
    /\ call.op = "resolve"
    /\ call.exc = NoExc
    /\ Len(call.options) = 2
    /\ call.rounds = 2
    /\ call.peer[1].prep = 0
    /\ call.peer[1].again # call.peer[1].url
    /\ Len(call.ret) = 3
    /\ call.ret[1].entityId = call.options[1].entityId
    /\ call.ret[2].entityId = call.options[1].entityId
    /\ call.ret[1].productId = call.ret[2].productId
    /\ call.ret[1].url # call.ret[2].url

====
